---- MODULE Spec2Model ----
(***************************************************************************)
(* A model of the reference (software) backend of jax-js, CPUBackend in    *)
(* src/src/backend/cpu.ts: a table of reference-counted buffers addressed  *)
(* by integer slots, and the element-at-a-time Add / Mul kernels that read *)
(* their operands through shape trackers.                                  *)
(*                                                                         *)
(* A buffer is modelled as the sequence of its Float32 elements: byte      *)
(* sizes and byte offsets are multiples of ElemBytes.  Element values are  *)
(* small naturals (exact in Float32); NaN stands for the value JavaScript  *)
(* produces when arithmetic meets `undefined` (a typed-array read outside  *)
(* the array).                                                             *)
(***************************************************************************)
EXTENDS Integers, Sequences, FiniteSets, TLC

VARIABLES
    buffers,   \* CPUBackend.buffers : slot -> [ref, buffer]
    nextSlot,  \* CPUBackend.nextSlot
    last,      \* the most recent call on the backend and what the caller saw
    issued,    \* history: every handle malloc has returned so far
    tally,     \* history: per issued handle, its successful incRef and
               \* decRef calls so far
    submitted, \* history: the calls a client has logged, in submission
               \* order, each with the promise it got
    peer,      \* a second CPUBackend instance: [buffers, nextSlot, issued]
    onnx,      \* an ONNXModel, the arrays it and its caller hold, and what
               \* its last call did
    client     \* the ArrayBuffers a caller of the backend holds: those it
               \* gave to malloc and those readSync returned

vars == <<buffers, nextSlot, last, issued, tally, submitted, peer, onnx,
          client>>

(***************************************************************************)
(* Bounds of the model.                                                    *)
(***************************************************************************)
MaxSlots == 2      \* malloc is explored until this many handles are issued
MaxIncRefs == 2    \* incRef is explored this many times per handle
MaxVal == 1        \* kernels are explored while results stay <= MaxVal
MaxKernelSlots == 3  \* buffers allocated before a kernel is launched
MaxSubmitted == 4  \* calls a client logs
MaxInSize == 4     \* input sizes explored by the padding policy
MaxFilter == 3     \* kernel sizes explored
MaxStride == 3     \* strides explored
MaxDilation == 2   \* small dilations explored
MaxExtent == 4     \* dimension sizes of the trackers explored
MaxViews == 4      \* views a tracker is grown to

(***************************************************************************)
(* Program constants.                                                      *)
(***************************************************************************)
ElemBytes == 4     \* bytes per element of a Float32Array view
FirstSlot == 1     \* the constructor's nextSlot

NaN == 0 - 1
None == <<>>
Some(x) == <<x>>
IsSome(o) == Len(o) = 1

Min(a, b) == IF a <= b THEN a ELSE b
Max(a, b) == IF a >= b THEN a ELSE b

Zeros(n) == [i \in 1..n |-> 0]

(***************************************************************************)
(* Shape trackers (src/shape.ts is not among the sources; modelled from    *)
(* the design's description of a View: sizes, strides, an offset and a     *)
(* per-dimension validity range introduced by padding).                    *)
(***************************************************************************)
RECURSIVE ProdFrom(_, _)
ProdFrom(shape, d) ==
    IF d > Len(shape) THEN 1 ELSE shape[d] * ProdFrom(shape, d + 1)

\* unravelAlu(shape, gidx): the row-major coordinates of flat position gidx.
UnravelAlu(shape, gidx) ==
    [d \in 1..Len(shape) |-> (gidx \div ProdFrom(shape, d + 1)) % shape[d]]

RECURSIVE DotFrom(_, _, _)
DotFrom(idxs, strides, d) ==
    IF d > Len(idxs) THEN 0
    ELSE idxs[d] * strides[d] + DotFrom(idxs, strides, d + 1)

\* ShapeTracker.toAluExp(indices): the pair (flat offset, validity).
ToAluExp(st, idxs) ==
    [index |-> st.offset + DotFrom(idxs, st.strides, 1),
     valid |-> \A d \in 1..Len(idxs) :
                   st.mask[d][1] <= idxs[d] /\ idxs[d] < st.mask[d][2]]

\* The two expressions of a kernel, evaluated at gidx = i.
IndexAt(st, i) == ToAluExp(st, UnravelAlu(st.shape, i)).index
ValidAt(st, i) == ToAluExp(st, UnravelAlu(st.shape, i)).valid

\* ShapeTracker.fromShape(shape): one contiguous view, everywhere valid.
FromShape(shape) ==
    [shape   |-> shape,
     strides |-> [d \in 1..Len(shape) |-> ProdFrom(shape, d + 1)],
     offset  |-> 0,
     mask    |-> [d \in 1..Len(shape) |-> <<0, shape[d]>>]]

(***************************************************************************)
(* What a call reports to its caller.                                      *)
(*   err      "none", "SlotError" or "SizeMismatch"                        *)
(*   errSlot  the slot a SlotError names                                   *)
(*   how      "sync": returned or threw at the call;                       *)
(*            "fulfilled" / "rejected": the state of the returned promise  *)
(*   ret      the value returned (or the promise's value)                  *)
(***************************************************************************)
Ok(ret) == [err |-> "none", errSlot |-> 0, ret |-> ret]
SlotError(slot) == [err |-> "SlotError", errSlot |-> slot, ret |-> None]
\* malloc's `throw new Error("initialData size does not match buffer size")`
SizeMismatch == [err |-> "SizeMismatch", errSlot |-> 0, ret |-> None]

Call(op, args, res, how) ==
    [op |-> op, args |-> args, err |-> res.err, errSlot |-> res.errSlot,
     how |-> how, ret |-> res.ret]

\* A synchronous method: the caller sees the return value or the throw.
Sync(op, args, res) == Call(op, args, res, "sync")

\* A variant that lets the body's throw escape at the call.
AsyncThrows(op, args, res) == Call(op, args, res, "sync")

\* An `async` method: the body runs at the call; a throw inside it rejects
\* the returned promise, a return fulfils it.
Async(op, args, res) ==
    Call(op, args, res, IF res.err = "none" THEN "fulfilled" ELSE "rejected")

(***************************************************************************)
(* malloc                                                                  *)
(***************************************************************************)
\* A variant that takes the next id before it has checked initialData.
MallocEagerId(bufs, next, size, initialData) ==
    LET mismatch == IsSome(initialData)
                    /\ Len(initialData[1]) * ElemBytes # size
    IN  IF mismatch
        THEN [res |-> SizeMismatch, buffers |-> bufs, nextSlot |-> next + 1]
        ELSE [res |-> Ok(Some(next)),
              buffers |-> [s \in DOMAIN bufs \cup {next} |->
                              IF s = next
                              THEN [ref |-> 1,
                                    buffer |-> IF IsSome(initialData)
                                               THEN initialData[1]
                                               ELSE Zeros(size \div ElemBytes)]
                              ELSE bufs[s]],
              nextSlot |-> next + 1]

\* A variant that hands out the smallest handle not in use.
MallocReuse(bufs, next, size, initialData) ==
    LET free == {s \in FirstSlot..next : s \notin DOMAIN bufs}
        slot == CHOOSE s \in free : \A t \in free : s <= t
        mismatch == IsSome(initialData)
                    /\ Len(initialData[1]) * ElemBytes # size
    IN  IF mismatch
        THEN [res |-> SizeMismatch, buffers |-> bufs, nextSlot |-> next]
        ELSE [res |-> Ok(Some(slot)),
              buffers |-> [s \in DOMAIN bufs \cup {slot} |->
                              IF s = slot
                              THEN [ref |-> 1,
                                    buffer |-> IF IsSome(initialData)
                                               THEN initialData[1]
                                               ELSE Zeros(size \div ElemBytes)]
                              ELSE bufs[s]],
              nextSlot |-> IF slot = next THEN next + 1 ELSE next]

MallocResult(bufs, next, size, initialData) ==
    LET buffer == Zeros(size \div ElemBytes)
        mismatch == IsSome(initialData)
                    /\ Len(initialData[1]) * ElemBytes # size
        slot == next
    IN  IF mismatch
        THEN [res |-> SizeMismatch, buffers |-> bufs, nextSlot |-> next]
        ELSE [res |-> Ok(Some(slot)),
              buffers |-> [s \in DOMAIN bufs \cup {slot} |->
                              IF s = slot
                              THEN [ref |-> 1,
                                    buffer |-> IF IsSome(initialData)
                                               THEN initialData[1]
                                               ELSE buffer]
                              ELSE bufs[s]],
              nextSlot |-> next + 1]

(***************************************************************************)
(* incRef / decRef                                                         *)
(***************************************************************************)
Without(bufs, slot) == [s \in DOMAIN bufs \ {slot} |-> bufs[s]]

\* A variant that starts a count for a slot it does not know.
IncRefCreates(bufs, slot) ==
    IF slot \notin DOMAIN bufs
    THEN [res |-> Ok(None),
          buffers |-> [s \in DOMAIN bufs \cup {slot} |->
                          IF s = slot THEN [ref |-> 1, buffer |-> <<>>]
                          ELSE bufs[s]]]
    ELSE [res |-> Ok(None),
          buffers |-> [bufs EXCEPT ![slot].ref = @ + 1]]

IncRefResult(bufs, slot) ==
    IF slot \notin DOMAIN bufs
    THEN [res |-> SlotError(slot), buffers |-> bufs]
    ELSE [res |-> Ok(None),
          buffers |-> [bufs EXCEPT ![slot].ref = @ + 1]]

\* A variant that frees a slot only once its count has gone below 0.
DecRefLeaky(bufs, slot) ==
    IF slot \notin DOMAIN bufs
    THEN [res |-> SlotError(slot), buffers |-> bufs]
    ELSE [res |-> Ok(None),
          buffers |-> IF bufs[slot].ref - 1 < 0
                      THEN Without(bufs, slot)
                      ELSE [bufs EXCEPT ![slot].ref = @ - 1]]

\* A variant that lowers the count and never drops the entry.
DecRefKeepsEntry(bufs, slot) ==
    IF slot \notin DOMAIN bufs
    THEN [res |-> SlotError(slot), buffers |-> bufs]
    ELSE [res |-> Ok(None),
          buffers |-> [bufs EXCEPT ![slot].ref = @ - 1]]

DecRefResult(bufs, slot) ==
    IF slot \notin DOMAIN bufs
    THEN [res |-> SlotError(slot), buffers |-> bufs]
    ELSE [res |-> Ok(None),
          buffers |-> IF bufs[slot].ref - 1 = 0
                      THEN Without(bufs, slot)
                      ELSE [bufs EXCEPT ![slot].ref = @ - 1]]

(***************************************************************************)
(* readSync                                                                *)
(***************************************************************************)
\* ArrayBuffer.prototype.slice(begin, end) in elements: both ends are
\* clamped to the buffer, a negative end counts from the end.
Clamp(len, k) == IF k < 0 THEN Max(len + k, 0) ELSE Min(k, len)
SliceBuf(buf, begin, end) ==
    LET first == Clamp(Len(buf), begin)
        final == Clamp(Len(buf), end)
    IN  IF first < final THEN SubSeq(buf, first + 1, final) ELSE <<>>

\* #getBuffer
HasBuffer(bufs, slot) == slot \in DOMAIN bufs

ReadSyncResult(bufs, slot, start, count) ==
    IF ~HasBuffer(bufs, slot) THEN SlotError(slot)
    ELSE LET buffer == bufs[slot].buffer
             s == IF IsSome(start) THEN start[1] ELSE 0
             c == IF IsSome(count) THEN count[1]
                  ELSE Len(buffer) * ElemBytes - s
         IN  Ok(SliceBuf(buffer, s \div ElemBytes, (s + c) \div ElemBytes))

(***************************************************************************)
(* cpuOps: the Add and Mul kernels                                         *)
(***************************************************************************)
\* Element idx of a Float32Array; outside the array JavaScript yields
\* `undefined`, which arithmetic turns into NaN.
Load(cells, idx) ==
    IF 0 <= idx /\ idx < Len(cells) THEN cells[idx + 1] ELSE NaN

\* `valid.evaluate({gidx: i}) ? x32[exp.evaluate({gidx: i})] : 0`, with the
\* offsets it reads.
\* A variant that loads whatever the validity says.
OperandUnmasked(cells, st, i) ==
    [val |-> Load(cells, IndexAt(st, i)), reads |-> {IndexAt(st, i)}]

Operand(cells, st, i) ==
    IF ValidAt(st, i)
    THEN [val |-> Load(cells, IndexAt(st, i)), reads |-> {IndexAt(st, i)}]
    ELSE [val |-> 0, reads |-> {}]

\* A variant whose Mul adds.
ApplyAlwaysAdd(op, a, b) ==
    IF a = NaN \/ b = NaN THEN NaN ELSE a + b

Apply(op, a, b) ==
    IF a = NaN \/ b = NaN THEN NaN
    ELSE IF op = "Add" THEN a + b ELSE a * b

\* Where iteration i of the kernel's loop stores its result: `c32[i] = ...`.
\* A variant that stores where a third tracker, when given, points.
StoreAtTracker(shapes, i) ==
    IF Len(shapes) >= 3 THEN IndexAt(shapes[3], i) ELSE i

StoreAt(shapes, i) == i

\* One iteration of the loop `for (let i = 0; i < c32.length; i++)`.  The
\* typed arrays are views of the slots' buffers, so a store is visible to
\* the later loads of an input that shares the output's buffer.  The loads
\* and stores performed are kept beside the buffers.
KernelStore(op, st, out, i, a, b, at) ==
    [buffers |-> IF 0 <= at /\ at < Len(st.buffers[out].buffer)
                 THEN [st.buffers EXCEPT
                          ![out].buffer[at + 1] = Apply(op, a.val, b.val)]
                 ELSE st.buffers,
     loads |-> st.loads
                 \cup {[input |-> 1, pos |-> i, offset |-> x] : x \in a.reads}
                 \cup {[input |-> 2, pos |-> i, offset |-> x] : x \in b.reads},
     stores |-> st.stores \cup {[pos |-> i, offset |-> at]}]

KernelStep(op, st, inputs, shapes, out, i) ==
    CHOOSE r \in
        {KernelStore(op, st, out, i, a, b, at) :
            a \in {Operand(st.buffers[inputs[1]].buffer, shapes[1], i)},
            b \in {Operand(st.buffers[inputs[2]].buffer, shapes[2], i)},
            at \in {StoreAt(shapes, i)}} : TRUE

RECURSIVE KernelLoop(_, _, _, _, _, _)
KernelLoop(op, st, inputs, shapes, out, i) ==
    IF i >= Len(st.buffers[out].buffer) THEN st
    ELSE CHOOSE r \in {KernelLoop(op, nxt, inputs, shapes, out, i + 1) :
                          nxt \in {KernelStep(op, st, inputs, shapes, out, i)}} :
             TRUE

\* cpuOps[op](inputBuffers, shapes, outputBuffers)
CpuOp(op, bufs, inputs, shapes, outputs) ==
    KernelLoop(op, [buffers |-> bufs, loads |-> {}, stores |-> {}],
               inputs, shapes, outputs[1], 0)

(***************************************************************************)
(* executeOpSync                                                           *)
(***************************************************************************)
\* The first slot of `slots` that #getBuffer rejects, as a set (empty when
\* every slot has a buffer).
FirstMissing(bufs, slots) ==
    LET bad == {k \in 1..Len(slots) : ~HasBuffer(bufs, slots[k])}
    IN  {slots[k] : k \in {j \in bad : \A l \in bad : j <= l}}

Failed(bufs, slot) ==
    [res |-> SlotError(slot), buffers |-> bufs, loads |-> {}, stores |-> {}]

\* A variant that clears the output before it has looked up the inputs.
ExecClearsFirst(bufs, op, inputs, shapes, outputs) ==
    LET badOut == FirstMissing(bufs, outputs)
        badIn == FirstMissing(bufs, inputs)
        out == outputs[1]
        cleared == [bufs EXCEPT ![out].buffer = Zeros(Len(@))]
    IN  IF badOut # {} THEN Failed(bufs, CHOOSE s \in badOut : TRUE)
        ELSE IF badIn # {} THEN Failed(cleared, CHOOSE s \in badIn : TRUE)
        ELSE LET st == CpuOp(op, bufs, inputs, shapes, outputs)
             IN  [res |-> Ok(None), buffers |-> st.buffers,
                  loads |-> st.loads, stores |-> st.stores]

\* A variant that does not look up the output slots.
ExecSkipsOutputs(bufs, op, inputs, shapes, outputs) ==
    LET badIn == FirstMissing(bufs, inputs)
        badOut == FirstMissing(bufs, outputs)
    IN  IF badIn # {} THEN Failed(bufs, CHOOSE s \in badIn : TRUE)
        ELSE IF badOut # {}
        THEN [res |-> Ok(None), buffers |-> bufs, loads |-> {}, stores |-> {}]
        ELSE LET st == CpuOp(op, bufs, inputs, shapes, outputs)
             IN  [res |-> Ok(None), buffers |-> st.buffers,
                  loads |-> st.loads, stores |-> st.stores]

\* A variant that releases its first input once the kernel has run.
ExecConsumesInput(bufs, op, inputs, shapes, outputs) ==
    LET badIn == FirstMissing(bufs, inputs)
        badOut == FirstMissing(bufs, outputs)
    IN  IF badIn # {} THEN Failed(bufs, CHOOSE s \in badIn : TRUE)
        ELSE IF badOut # {} THEN Failed(bufs, CHOOSE s \in badOut : TRUE)
        ELSE LET st == CpuOp(op, bufs, inputs, shapes, outputs)
             IN  [res |-> Ok(None),
                  buffers |-> DecRefResult(st.buffers, inputs[1]).buffers,
                  loads |-> st.loads, stores |-> st.stores]

ExecResult(bufs, op, inputs, shapes, outputs) ==
    LET badIn == FirstMissing(bufs, inputs)
        badOut == FirstMissing(bufs, outputs)
    IN  IF badIn # {} THEN Failed(bufs, CHOOSE s \in badIn : TRUE)
        ELSE IF badOut # {} THEN Failed(bufs, CHOOSE s \in badOut : TRUE)
        ELSE LET st == CpuOp(op, bufs, inputs, shapes, outputs)
             IN  [res |-> Ok(None), buffers |-> st.buffers,
                  loads |-> st.loads, stores |-> st.stores]

(***************************************************************************)
(* The calls a client can make.                                            *)
(***************************************************************************)
\* A Map without entries.
EmptyMap == [n \in {} |-> 0]

\* Before `new ONNXModel(modelBytes)`.
NoModel ==
    [loaded |-> FALSE, graph |-> EmptyMap, inputNames |-> <<>>,
     initializers |-> EmptyMap, numInitializers |-> 0, weights |-> EmptyMap,
     arrays |-> <<>>, before |-> <<>>, executed |-> 0, runs |-> 0,
     disposals |-> 0]

\* A caller that holds no ArrayBuffer yet.
NoClient == [given |-> <<>>, got |-> <<>>]

Init ==
    /\ buffers = <<>>
    /\ nextSlot = FirstSlot
    /\ last = Sync("new", [slot |-> 0], Ok(None))
    /\ issued = {}
    /\ tally = <<>>
    /\ submitted = <<>>
    /\ peer = [buffers |-> <<>>, nextSlot |-> FirstSlot, issued |-> {}]
    /\ onnx = NoModel
    /\ client = NoClient

Malloc(size, initialData) ==
    /\ \E r \in {MallocResult(buffers, nextSlot, size, initialData)} :
           /\ buffers' = r.buffers
           /\ nextSlot' = r.nextSlot
           /\ last' = Sync("malloc", [size |-> size, initialData |-> initialData],
                           r.res)
           /\ issued' = IF r.res.err = "none"
                        THEN issued \cup {r.res.ret[1]} ELSE issued
           /\ tally' = IF r.res.err = "none"
                       THEN [s \in DOMAIN tally \cup {r.res.ret[1]} |->
                                IF s \in DOMAIN tally THEN tally[s]
                                ELSE [incs |-> 0, decs |-> 0]]
                       ELSE tally

IncRef(slot) ==
    /\ \E r \in {IncRefResult(buffers, slot)} :
           /\ buffers' = r.buffers
           /\ last' = Sync("incRef", [slot |-> slot], r.res)
           /\ tally' = IF r.res.err = "none" /\ slot \in DOMAIN tally
                       THEN [tally EXCEPT ![slot].incs = @ + 1] ELSE tally
    /\ UNCHANGED <<nextSlot, issued>>

DecRef(slot) ==
    /\ \E r \in {DecRefResult(buffers, slot)} :
           /\ buffers' = r.buffers
           /\ last' = Sync("decRef", [slot |-> slot], r.res)
           /\ tally' = IF r.res.err = "none" /\ slot \in DOMAIN tally
                       THEN [tally EXCEPT ![slot].decs = @ + 1] ELSE tally
    /\ UNCHANGED <<nextSlot, issued>>

ReadSync(slot, start, count) ==
    /\ last' = Sync("readSync", [slot |-> slot, start |-> start, count |-> count],
                    ReadSyncResult(buffers, slot, start, count))
    /\ UNCHANGED <<buffers, nextSlot, issued, tally>>

Read(slot, start, count) ==
    /\ last' = Async("read", [slot |-> slot, start |-> start, count |-> count],
                     ReadSyncResult(buffers, slot, start, count))
    /\ UNCHANGED <<buffers, nextSlot, issued, tally>>

ExecArgs(op, inputs, shapes, outputs, r) ==
    [op |-> op, inputs |-> inputs, shapes |-> shapes, outputs |-> outputs,
     loads |-> r.loads, stores |-> r.stores]

ExecuteOpSync(op, inputs, shapes, outputs) ==
    /\ \E r \in {ExecResult(buffers, op, inputs, shapes, outputs)} :
           /\ buffers' = r.buffers
           /\ last' = Sync("executeOpSync",
                           ExecArgs(op, inputs, shapes, outputs, r), r.res)
    /\ UNCHANGED <<nextSlot, issued, tally>>

ExecuteOp(op, inputs, shapes, outputs) ==
    /\ \E r \in {ExecResult(buffers, op, inputs, shapes, outputs)} :
           /\ buffers' = r.buffers
           /\ last' = Async("executeOp",
                            ExecArgs(op, inputs, shapes, outputs, r), r.res)
    /\ UNCHANGED <<nextSlot, issued, tally>>

(***************************************************************************)
(* Derived notions.                                                        *)
(***************************************************************************)
Live == DOMAIN buffers
Freed == issued \ DOMAIN buffers
Cells(slot) == buffers[slot].buffer

IsExec(c) == c.op \in {"executeOpSync", "executeOp"}
IsRead(c) == c.op \in {"readSync", "read"}
Succeeded(c) == c.err = "none"

\* Every element the kernels have produced is within the explored values.
WithinVals(bufs) ==
    \A s \in DOMAIN bufs : \A k \in 1..Len(bufs[s].buffer) :
        bufs[s].buffer[k] <= MaxVal

(***************************************************************************)
(* The inputs explored.                                                    *)
(***************************************************************************)
Ops == {"Add", "Mul"}

\* Handles a client may pass: every handle the model issues, and 0, which
\* no backend issues.
SlotArgs == 0..MaxSlots
IssuableSlots == FirstSlot..MaxSlots

\* malloc(size, initialData?) over one-element buffers: zero-filled,
\* initialised, and two calls whose initialData disagrees with size.
MallocCalls ==
    {[size |-> ElemBytes, data |-> None],
     [size |-> ElemBytes, data |-> Some(<<1>>)],
     [size |-> ElemBytes, data |-> Some(<<>>)],
     [size |-> 0, data |-> Some(<<1>>)]}

\* (start, count) of a read, in bytes; None is `undefined`.
ReadRanges ==
    {<<None, None>>, <<Some(0), Some(ElemBytes)>>, <<Some(ElemBytes), None>>}

UnitShapes == {<<FromShape(<<1>>), FromShape(<<1>>)>>}

\* A call by a client that keeps no log and has one backend.
Unlogged == UNCHANGED <<submitted, peer, onnx,
                 client>>

(***************************************************************************)
(* SpecRef: any sequence of malloc / incRef / decRef, with readSync to     *)
(* observe the buffers.                                                    *)
(***************************************************************************)
NextRef ==
    \/ /\ nextSlot <= MaxSlots
       /\ \E c \in MallocCalls : Malloc(c.size, c.data)
       /\ Unlogged
    \/ \E s \in SlotArgs :
           /\ HasBuffer(buffers, s) => tally[s].incs < MaxIncRefs
           /\ IncRef(s)
           /\ Unlogged
    \/ \E s \in SlotArgs : DecRef(s) /\ Unlogged
    \/ \E s \in SlotArgs, r \in ReadRanges :
           ReadSync(s, r[1], r[2]) /\ Unlogged

SpecRef == Init /\ [][NextRef]_vars

(***************************************************************************)
(* SpecOps: allocation, release, reads and kernel launches in both their   *)
(* synchronous and asynchronous forms, over one-element buffers.           *)
(***************************************************************************)
NextOps ==
    \/ /\ nextSlot <= MaxSlots
       /\ \E c \in MallocCalls : Malloc(c.size, c.data)
       /\ Unlogged
    \/ \E s \in IssuableSlots : DecRef(s) /\ Unlogged
    \/ \E s \in IssuableSlots, r \in ReadRanges :
           ReadSync(s, r[1], r[2]) /\ Unlogged
    \/ \E s \in IssuableSlots, r \in ReadRanges :
           Read(s, r[1], r[2]) /\ Unlogged
    \/ \E op \in Ops, a, b, c \in IssuableSlots, sh \in UnitShapes :
           /\ ExecuteOpSync(op, <<a, b>>, sh, <<c>>) /\ WithinVals(buffers')
           /\ Unlogged
    \/ \E op \in Ops, a, b, c \in IssuableSlots, sh \in UnitShapes :
           /\ ExecuteOp(op, <<a, b>>, sh, <<c>>) /\ WithinVals(buffers')
           /\ Unlogged

SpecOps == Init /\ [][NextOps]_vars

(***************************************************************************)
(* SpecKernel: a client allocates up to MaxKernelSlots buffers, launches   *)
(* one Add or Mul kernel over them and reads buffers back.  The trackers   *)
(* cover contiguous, permuted, reversed, broadcast and padded views.       *)
(***************************************************************************)
View(shape, strides, offset, mask) ==
    [shape |-> shape, strides |-> strides, offset |-> offset, mask |-> mask]

Id4 == FromShape(<<4>>)
Id2 == FromShape(<<2>>)
Id22 == FromShape(<<2, 2>>)
\* Id22 with its two axes exchanged.
Perm22 == View(<<2, 2>>, <<1, 2>>, 0, <<<<0, 2>>, <<0, 2>>>>)
\* Four elements in reverse order.
Flip4 == View(<<4>>, <<0 - 1>>, 3, <<<<0, 4>>>>)
\* One element expanded to four: stride 0.
Bcast4 == View(<<4>>, <<0>>, 0, <<<<0, 4>>>>)
\* Three elements padded by one before: position 0 is invalid.
PadBefore4 == View(<<4>>, <<1>>, 0 - 1, <<<<1, 4>>>>)
\* Two elements padded by two after: positions 2 and 3 are invalid.
PadAfter4 == View(<<4>>, <<1>>, 0, <<<<0, 2>>>>)

\* The `shapes` argument: one tracker per input and, in the last two, a
\* third tracker meant for the output.
KernelShapes ==
    {<<Id4, Id4>>, <<Id2, Id2>>, <<Id22, Perm22>>, <<PadBefore4, Flip4>>,
     <<Bcast4, PadAfter4>>, <<Id4, Id4, Flip4>>, <<Id4, PadBefore4, Id4>>}

KernelMallocs ==
    {[size |-> 4 * ElemBytes, data |-> Some(<<1, 2, 3, 4>>)],
     [size |-> 4 * ElemBytes, data |-> Some(<<10, 20, 30, 40>>)],
     [size |-> 2 * ElemBytes, data |-> Some(<<5, 6>>)]}

KernelSlots == FirstSlot..MaxKernelSlots

Allocating == last.op \in {"new", "malloc"}

NextKernel ==
    \/ /\ Allocating
       /\ nextSlot <= MaxKernelSlots
       /\ \E c \in KernelMallocs : Malloc(c.size, c.data)
       /\ Unlogged
    \/ /\ Allocating
       /\ \E op \in Ops, a, b, c \in KernelSlots, sh \in KernelShapes :
              ExecuteOpSync(op, <<a, b>>, sh, <<c>>)
       /\ Unlogged
    \/ /\ IsExec(last) /\ Succeeded(last)
       /\ ReadSync(last.args.outputs[1], None, None)
       /\ Unlogged

SpecKernel == Init /\ [][NextKernel]_vars

(***************************************************************************)
(* Properties.                                                             *)
(***************************************************************************)
SlotsOf(c) ==
    {c.args.inputs[k] : k \in 1..Len(c.args.inputs)}
      \cup {c.args.outputs[k] : k \in 1..Len(c.args.outputs)}

\* C1: a slot returned by malloc starts at reference count 1; each
\* successful incRef adds exactly 1 and each successful decRef subtracts
\* exactly 1; the slot leaves the table exactly at the decRef that brings
\* the count to 0.  Hence a live slot's count is 1 + incRefs - decRefs, and
\* a slot is freed exactly when its decRefs outnumber its incRefs by one:
\* after malloc, incRef, incRef the slot survives two decRefs and is freed
\* by the third.
C1_RefcountLifecycle ==
    [][ /\ (last'.op = "malloc" /\ Succeeded(last')) =>
              /\ last'.ret[1] \in DOMAIN buffers'
              /\ buffers'[last'.ret[1]].ref = 1
        /\ (last'.op = "incRef" /\ Succeeded(last')) =>
              /\ last'.args.slot \in DOMAIN buffers \cap DOMAIN buffers'
              /\ buffers'[last'.args.slot].ref = buffers[last'.args.slot].ref + 1
              /\ buffers'[last'.args.slot].buffer = buffers[last'.args.slot].buffer
        /\ (last'.op = "decRef" /\ Succeeded(last')) =>
              /\ last'.args.slot \in DOMAIN buffers
              /\ IF buffers[last'.args.slot].ref = 1
                 THEN last'.args.slot \notin DOMAIN buffers'
                 ELSE /\ last'.args.slot \in DOMAIN buffers'
                      /\ buffers'[last'.args.slot].ref
                            = buffers[last'.args.slot].ref - 1
        /\ \A s \in DOMAIN buffers \ DOMAIN buffers' :
              last'.op = "decRef" /\ last'.args.slot = s /\ buffers[s].ref = 1
        /\ \A s \in DOMAIN buffers \cap DOMAIN buffers' :
              (last'.op \in {"incRef", "decRef"} => s # last'.args.slot)
                 => buffers'[s] = buffers[s]
        /\ \A s \in issued' :
              IF s \in DOMAIN buffers'
              THEN buffers'[s].ref = 1 + tally'[s].incs - tally'[s].decs
                   /\ buffers'[s].ref >= 1
              ELSE tally'[s].decs = tally'[s].incs + 1
      ]_vars

\* malloc, incRef, incRef, decRef, decRef, decRef: the third decRef has
\* just freed the slot.
C1_Witness ==
    /\ last.op = "decRef" /\ Succeeded(last)
    /\ last.args.slot \in Freed
    /\ tally[last.args.slot] = [incs |-> 2, decs |-> 3]

\* C2: incRef and decRef on a slot that is not in the table (never
\* allocated, or already freed) fail with SlotError and change neither the
\* table, nor any count or buffer, nor the id counter.
C2_UnknownSlotRejected ==
    [][ (last'.op \in {"incRef", "decRef"}
           /\ last'.args.slot \notin DOMAIN buffers) =>
              /\ last'.err = "SlotError"
              /\ last'.errSlot = last'.args.slot
              /\ buffers' = buffers
              /\ nextSlot' = nextSlot
      ]_vars

\* A decRef of a slot that an earlier decRef had freed, while another slot
\* is live.
C2_Witness ==
    /\ last.op = "decRef" /\ last.err = "SlotError"
    /\ last.args.slot \in Freed
    /\ Live # {}

\* C3: a read or a kernel launch (synchronous or asynchronous) that names,
\* as the slot read, an input or an output, a slot whose count has reached
\* 0 fails with SlotError.
C3_FreedSlotUnusable ==
    /\ (IsRead(last) /\ last.args.slot \in Freed) =>
          last.err = "SlotError" /\ last.errSlot = last.args.slot
    /\ (IsExec(last) /\ SlotsOf(last) \cap Freed # {}) =>
          last.err = "SlotError" /\ last.errSlot \notin Live

\* A launch whose inputs are live and whose output had been freed.
C3_Witness ==
    /\ last.op = "executeOpSync"
    /\ last.args.outputs[1] \in Freed
    /\ \A k \in 1..2 : last.args.inputs[k] \in Live
    /\ last.err = "SlotError"

\* C4: malloc never returns a handle it has returned before, and a handle
\* that has been freed never names a buffer again.
C4_HandlesNeverReused ==
    [][ /\ (last'.op = "malloc" /\ Succeeded(last')) =>
              last'.ret[1] \notin issued
        /\ \A s \in Freed : s \notin DOMAIN buffers'
      ]_vars

\* A malloc that succeeded after a slot had been freed.
C4_Witness ==
    /\ last.op = "malloc" /\ Succeeded(last)
    /\ Freed # {}

\* C5: malloc with initialData whose byte length differs from size fails
\* with the size-mismatch error, adds no slot and leaves the next handle as
\* it was.
C5_SizeMismatchAllocatesNothing ==
    [][ (last'.op = "malloc"
           /\ IsSome(last'.args.initialData)
           /\ Len(last'.args.initialData[1]) * ElemBytes # last'.args.size) =>
              /\ last'.err = "SizeMismatch"
              /\ buffers' = buffers
              /\ nextSlot' = nextSlot
      ]_vars

\* A mismatching malloc on a backend that already holds a slot.
C5_Witness ==
    /\ last.op = "malloc" /\ last.err = "SizeMismatch"
    /\ Live # {}

\* The operand the kernel is to use for input k at output position i, from
\* the buffers the launch found.
OperandOf(c, k, i) ==
    IF ValidAt(c.args.shapes[k], i)
    THEN Load(buffers[c.args.inputs[k]].buffer, IndexAt(c.args.shapes[k], i))
    ELSE 0

\* C6: with two live inputs of n elements, identity trackers over [n] and
\* a live output of n elements, Add leaves out[i] = a[i] + b[i] and Mul
\* leaves out[i] = a[i] * b[i] for every i in [0, n).
C6_ElementwiseResult ==
    [][ (last'.op = "executeOpSync" /\ Succeeded(last')) =>
          LET c == last'.args
              out == c.outputs[1]
              a == buffers[c.inputs[1]].buffer
              b == buffers[c.inputs[2]].buffer
              n == Len(buffers[out].buffer)
          IN  (Len(a) = n /\ Len(b) = n
                 /\ c.shapes = <<FromShape(<<n>>), FromShape(<<n>>)>>) =>
                  /\ Len(buffers'[out].buffer) = n
                  /\ \A i \in 1..n :
                        buffers'[out].buffer[i]
                           = IF c.op = "Add" THEN a[i] + b[i] ELSE a[i] * b[i]
      ]_vars

\* Add over [1,2,3,4] and [10,20,30,40] has produced [11,22,33,44].
C6_Witness ==
    /\ last.op = "executeOpSync" /\ Succeeded(last)
    /\ last.args.op = "Add"
    /\ last.args.shapes = <<Id4, Id4>>
    /\ last.args.outputs[1] \notin {last.args.inputs[1], last.args.inputs[2]}
    /\ {Cells(last.args.inputs[1]), Cells(last.args.inputs[2])}
          = {<<1, 2, 3, 4>>, <<10, 20, 30, 40>>}
    /\ Cells(last.args.outputs[1]) = <<11, 22, 33, 44>>

\* C7: at every output position i and for each input, the operand is the
\* input buffer's element at the offset of that input's tracker when the
\* tracker is valid at i, and 0 when it is not; the input buffer is read at
\* exactly the offsets of the valid positions.
C7_OperandsFollowTrackers ==
    [][ (IsExec(last') /\ Succeeded(last')) =>
          LET c == last'.args
              out == c.outputs[1]
              n == Len(buffers[out].buffer)
          IN  /\ c.loads =
                   {l \in [input : 1..2, pos : 0..(n - 1),
                           offset : {IndexAt(c.shapes[k], i) :
                                        k \in 1..2, i \in 0..(n - 1)}] :
                       /\ ValidAt(c.shapes[l.input], l.pos)
                       /\ l.offset = IndexAt(c.shapes[l.input], l.pos)}
              /\ (out \notin {c.inputs[1], c.inputs[2]}) =>
                    \A i \in 0..(n - 1) :
                        buffers'[out].buffer[i + 1]
                           = Apply(c.op, OperandOf(last', 1, i),
                                   OperandOf(last', 2, i))
      ]_vars

\* A launch whose first input is padded in front (invalid at position 0)
\* and whose second input is reversed.
C7_Witness ==
    /\ IsExec(last) /\ Succeeded(last)
    /\ last.args.shapes = <<PadBefore4, Flip4>>
    /\ last.args.outputs[1] \notin {last.args.inputs[1], last.args.inputs[2]}
    /\ Len(Cells(last.args.outputs[1])) = 4
    /\ Cells(last.args.inputs[1]) = <<1, 2, 3, 4>>
    /\ Cells(last.args.inputs[2]) = <<10, 20, 30, 40>>

\* C8 as stated: every result is stored at the output buffer offset that the
\* output's own tracker yields at that position.
C8_StoresFollowOutputTracker ==
    (IsExec(last) /\ Succeeded(last) /\ Len(last.args.shapes) >= 3) =>
        \A st \in last.args.stores :
            /\ ValidAt(last.args.shapes[3], st.pos)
            /\ st.offset = IndexAt(last.args.shapes[3], st.pos)

\* C8, amended: the result of loop index i is stored at output buffer
\* offset i, for every i in [0, number of elements of the output buffer);
\* the kernel takes trackers for its two inputs only, and a tracker passed
\* for the output changes nothing.
C8_StoresAreContiguous ==
    [][ (IsExec(last') /\ Succeeded(last')) =>
          LET c == last'.args
              out == c.outputs[1]
              n == Len(buffers[out].buffer)
          IN  /\ c.stores = {[pos |-> i, offset |-> i] : i \in 0..(n - 1)}
              /\ buffers' =
                    ExecResult(buffers, c.op, c.inputs,
                               SubSeq(c.shapes, 1, 2), c.outputs).buffers
              /\ \A s \in DOMAIN buffers \ {out} : buffers'[s] = buffers[s]
      ]_vars

\* A launch that was handed a reversing tracker for its output.
C8_Witness ==
    /\ IsExec(last) /\ Succeeded(last)
    /\ Len(last.args.shapes) = 3
    /\ last.args.shapes[3] = Flip4
    /\ Len(Cells(last.args.outputs[1])) = 4

\* C9: a launch with an unknown or freed slot among its inputs or outputs
\* fails with SlotError and has written nothing: every buffer is as it was.
C9_NoPartialLaunch ==
    [][ (IsExec(last')
           /\ \E s \in SlotsOf(last') : s \notin DOMAIN buffers) =>
              /\ last'.err = "SlotError"
              /\ last'.errSlot \in SlotsOf(last')
              /\ last'.errSlot \notin DOMAIN buffers
              /\ last'.args.stores = {}
              /\ buffers' = buffers
      ]_vars

\* A launch that failed on a freed input while its output slot was live
\* and held data.
C9_Witness ==
    /\ IsExec(last) /\ last.err = "SlotError"
    /\ last.errSlot \in {last.args.inputs[1], last.args.inputs[2]}
    /\ last.errSlot \in Freed
    /\ last.args.outputs[1] \in Live
    /\ Cells(last.args.outputs[1]) = <<1>>

\* C10: read hands back, through its promise, exactly what readSync returns
\* from the same state, and executeOp leaves the buffers executeOpSync
\* leaves; where the synchronous form throws, the asynchronous form does
\* not throw at the call: its promise is rejected with the same error.
C10_AsyncWrapsSync ==
    [][ /\ last'.op = "read" =>
              LET r == ReadSyncResult(buffers, last'.args.slot,
                                      last'.args.start, last'.args.count)
              IN  /\ last'.how = IF r.err = "none" THEN "fulfilled" ELSE "rejected"
                  /\ last'.err = r.err /\ last'.errSlot = r.errSlot
                  /\ last'.ret = r.ret
                  /\ buffers' = buffers
        /\ last'.op = "executeOp" =>
              LET r == ExecResult(buffers, last'.args.op, last'.args.inputs,
                                  last'.args.shapes, last'.args.outputs)
              IN  /\ last'.how = IF r.res.err = "none" THEN "fulfilled"
                                 ELSE "rejected"
                  /\ last'.err = r.res.err /\ last'.errSlot = r.res.errSlot
                  /\ buffers' = r.buffers
      ]_vars

\* A read of a freed slot: the call returned a promise, which is rejected
\* with SlotError.
C10_Witness ==
    /\ last.op = "read" /\ last.how = "rejected"
    /\ last.err = "SlotError"
    /\ last.args.slot \in Freed

(***************************************************************************)
(* SpecAsync: a client that submits calls without awaiting the promises    *)
(* of the asynchronous ones, and awaits them later, in any order.  The     *)
(* body of an `async` method runs at the call (cpu.ts has no `await`       *)
(* before `return this.readSync(...)`), so a promise is settled with what  *)
(* the body found when the call was made.                                  *)
(***************************************************************************)
\* A variant in which a read's promise holds a view of the slot's buffer
\* instead of a copy.
ObserveView(bufs, p) ==
    IF p.op = "read" /\ p.err = "none" /\ HasBuffer(bufs, p.args.slot)
    THEN ReadSyncResult(bufs, p.args.slot, p.args.start, p.args.count)
    ELSE [err |-> p.err, errSlot |-> p.errSlot, ret |-> p.ret]

\* What awaiting promise p yields while the buffers are bufs: the value or
\* error the body produced.  readSync's `buffer.slice` is a copy of the
\* bytes, which later stores do not reach.
Observe(bufs, p) == [err |-> p.err, errSlot |-> p.errSlot, ret |-> p.ret]

\* The client logs the call it has just made.
Logged ==
    /\ submitted' = Append(submitted, [call |-> last'])
    /\ UNCHANGED <<peer, onnx, client>>

\* The logged calls that returned a promise.
Promises == {k \in 1..Len(submitted) : submitted[k].call.how # "sync"}

\* `await p` for the promise of the k-th logged call; a promise can be
\* awaited at any later time, and more than once.
Await(k) ==
    /\ last' = Call("await", [seq |-> k],
                    Observe(buffers, submitted[k].call), submitted[k].call.how)
    /\ UNCHANGED <<buffers, nextSlot, issued, tally, submitted, peer, onnx,
                 client>>

NextAsync ==
    \/ /\ nextSlot <= MaxSlots /\ Len(submitted) = nextSlot - FirstSlot
       /\ \E c \in {m \in MallocCalls : m.size = ElemBytes /\ m.data # Some(<<>>)} :
              Malloc(c.size, c.data)
       /\ Logged
    \/ /\ Len(submitted) < MaxSubmitted
       /\ \E s \in Live : tally[s].incs < MaxIncRefs /\ IncRef(s)
       /\ Logged
    \/ /\ Len(submitted) < MaxSubmitted
       /\ \E s \in Live : DecRef(s)
       /\ Logged
    \/ /\ Len(submitted) < MaxSubmitted
       /\ \E s \in issued : Read(s, None, None)
       /\ Logged
    \/ /\ Len(submitted) < MaxSubmitted
       /\ \E op \in Ops, a, b \in Live, c \in issued, sh \in UnitShapes :
              ExecuteOp(op, <<a, b>>, sh, <<c>>) /\ WithinVals(buffers')
       /\ Logged
    \/ \E k \in Promises : Await(k)

SpecAsync == Init /\ [][NextAsync]_vars

\* The backend after the first k logged calls run one after another, each
\* to completion, on a new backend.
RECURSIVE Replay(_, _)
Replay(log, k) ==
    IF k = 0 THEN [buffers |-> <<>>, nextSlot |-> FirstSlot]
    ELSE LET c == log[k].call
         IN  CHOOSE r \in
               {CASE c.op = "malloc" ->
                       LET m == MallocResult(st.buffers, st.nextSlot,
                                             c.args.size, c.args.initialData)
                       IN  [buffers |-> m.buffers, nextSlot |-> m.nextSlot]
                  [] c.op = "incRef" ->
                       [st EXCEPT !.buffers =
                           IncRefResult(st.buffers, c.args.slot).buffers]
                  [] c.op = "decRef" ->
                       [st EXCEPT !.buffers =
                           DecRefResult(st.buffers, c.args.slot).buffers]
                  [] IsExec(c) ->
                       [st EXCEPT !.buffers =
                           ExecResult(st.buffers, c.args.op, c.args.inputs,
                                      c.args.shapes, c.args.outputs).buffers]
                  [] OTHER -> st
                : st \in {Replay(log, k - 1)}} : TRUE

\* C11: calls are observed in submission order although no promise is
\* awaited before the next call: the buffers are those of running the
\* logged calls one after another, and what a read's promise yields when it
\* is awaited, however late, is the slot's contents after exactly the calls
\* logged before that read.
C11_SubmissionOrder ==
    /\ buffers = Replay(submitted, Len(submitted)).buffers
    /\ last.op = "await" =>
          LET k == last.args.seq
              c == submitted[k].call
              before == Replay(submitted, k - 1).buffers
          IN  /\ c.op = "read" =>
                    LET r == ReadSyncResult(before, c.args.slot,
                                            c.args.start, c.args.count)
                    IN  last.err = r.err /\ last.ret = r.ret
              /\ c.op = "executeOp" =>
                    last.err = ExecResult(before, c.args.op, c.args.inputs,
                                          c.args.shapes, c.args.outputs).res.err

\* A read is awaited after a later launch has changed the slot it read.
C11_Witness ==
    /\ last.op = "await" /\ last.err = "none"
    /\ LET k == last.args.seq
           c == submitted[k].call
       IN  /\ c.op = "read"
           /\ c.args.slot \in Live
           /\ last.ret # Cells(c.args.slot)
           /\ \E j \in (k + 1)..Len(submitted) :
                 /\ submitted[j].call.op = "executeOp"
                 /\ submitted[j].call.err = "none"
                 /\ submitted[j].call.args.outputs[1] = c.args.slot

(***************************************************************************)
(* SpecPeers: a client with two CPUBackend instances, `this` one           *)
(* (buffers, nextSlot) and `peer`, that passes any handle to either.       *)
(* `buffers` and `nextSlot` are instance fields set by the constructor.    *)
(***************************************************************************)
\* A variant in which the table is shared by all instances.
SharedTable(mine, theirs) == theirs

\* The table a method of an instance consults: `this.buffers`.
OwnTable(mine, theirs) == mine

PeerMalloc(size, initialData) ==
    /\ \E r \in {MallocResult(OwnTable(peer.buffers, buffers), peer.nextSlot,
                              size, initialData)} :
           /\ peer' = [buffers |-> r.buffers, nextSlot |-> r.nextSlot,
                       issued |-> IF r.res.err = "none"
                                  THEN peer.issued \cup {r.res.ret[1]}
                                  ELSE peer.issued]
           /\ last' = Sync("peer.malloc",
                           [size |-> size, initialData |-> initialData], r.res)
    /\ UNCHANGED <<buffers, nextSlot, issued, tally, submitted, onnx,
                   client>>

PeerDecRef(slot) ==
    /\ \E r \in {DecRefResult(OwnTable(peer.buffers, buffers), slot)} :
           /\ peer' = [peer EXCEPT !.buffers = r.buffers]
           /\ last' = Sync("peer.decRef", [slot |-> slot], r.res)
    /\ UNCHANGED <<buffers, nextSlot, issued, tally, submitted, onnx,
                   client>>

PeerReadSync(slot, start, count) ==
    /\ last' = Sync("peer.readSync",
                    [slot |-> slot, start |-> start, count |-> count],
                    ReadSyncResult(OwnTable(peer.buffers, buffers),
                                   slot, start, count))
    /\ UNCHANGED <<buffers, nextSlot, issued, tally, submitted, peer, onnx,
                 client>>

OnPeer(c) == c.op \in {"peer.malloc", "peer.decRef", "peer.readSync"}
TakesSlot(c) == c.op \in {"decRef", "readSync", "peer.decRef", "peer.readSync"}

NextPeers ==
    \/ /\ nextSlot <= MaxSlots
       /\ Malloc(ElemBytes, Some(<<1>>))
       /\ UNCHANGED <<submitted, peer, onnx,
                 client>>
    \/ \E s \in SlotArgs : DecRef(s) /\ UNCHANGED <<submitted, peer, onnx,
                 client>>
    \/ \E s \in SlotArgs :
           ReadSync(s, None, None) /\ UNCHANGED <<submitted, peer, onnx,
                 client>>
    \/ /\ peer.nextSlot <= MaxSlots
       /\ PeerMalloc(ElemBytes, None)
    \/ \E s \in SlotArgs : PeerDecRef(s)
    \/ \E s \in SlotArgs : PeerReadSync(s, None, None)

SpecPeers == Init /\ [][NextPeers]_vars

\* C12 as stated: a handle returned by malloc on one instance names no live
\* buffer of the other instance, and using it there fails with SlotError.
C12_ForeignHandleRejected ==
    /\ issued \cap DOMAIN peer.buffers = {}
    /\ peer.issued \cap DOMAIN buffers = {}
    /\ (OnPeer(last) /\ TakesSlot(last) /\ last.args.slot \in issued) =>
          last.err = "SlotError"
    /\ (~OnPeer(last) /\ TakesSlot(last) /\ last.args.slot \in peer.issued) =>
          last.err = "SlotError"

\* C12, amended: every instance has its own table and its own id counter
\* starting at 1, and a call on one instance neither reads nor changes the
\* other's buffers.  A handle is a bare number that an instance resolves in
\* its own table: whichever instance returned it, the call fails with
\* SlotError exactly when the instance called has no live slot of that
\* number, and otherwise acts on that instance's own slot.
C12_InstancesIsolated ==
    [][ /\ OnPeer(last') =>
              /\ buffers' = buffers /\ nextSlot' = nextSlot
              /\ TakesSlot(last') =>
                    (last'.err = "SlotError"
                        <=> last'.args.slot \notin DOMAIN peer.buffers)
              /\ (last'.op = "peer.readSync" /\ Succeeded(last')) =>
                    last'.ret = peer.buffers[last'.args.slot].buffer
              /\ (last'.op = "peer.decRef" /\ Succeeded(last')) =>
                    peer'.buffers = DecRefResult(peer.buffers,
                                                 last'.args.slot).buffers
              /\ (last'.op = "peer.malloc" /\ Succeeded(last')) =>
                    /\ last'.ret[1] = FirstSlot + Cardinality(peer.issued)
                    /\ DOMAIN peer'.buffers
                          = DOMAIN peer.buffers \cup {last'.ret[1]}
        /\ ~OnPeer(last') =>
              /\ peer' = peer
              /\ TakesSlot(last') =>
                    (last'.err = "SlotError"
                        <=> last'.args.slot \notin DOMAIN buffers)
              /\ (last'.op = "readSync" /\ Succeeded(last')) =>
                    last'.ret = Cells(last'.args.slot)
              /\ (last'.op = "malloc" /\ Succeeded(last')) =>
                    last'.ret[1] = FirstSlot + Cardinality(issued)
      ]_vars

\* A handle that this instance returned is passed to the peer's readSync,
\* which returns the peer's own buffer of that number.
C12_Witness ==
    /\ last.op = "peer.readSync" /\ Succeeded(last)
    /\ last.args.slot \in issued \cap Live
    /\ last.ret = <<0>>
    /\ Cells(last.args.slot) = <<1>>

(***************************************************************************)
(* The padding policy of convolution: padtypeToPads (lax module).          *)
(*                                                                         *)
(* JavaScript numbers hold integers exactly up to 2^53, while `>>` first   *)
(* converts its operand to a 32-bit two's complement integer.  To follow   *)
(* both, a number is kept as a pair <<hi, lo>> that stands for             *)
(* hi * Base + lo with 0 <= lo < Base.                                     *)
(***************************************************************************)
Base == 2 ^ 15

Norm(hi, lo) == <<hi + (lo \div Base), lo % Base>>
NumOf(n) == Norm(0, n)
Zero == NumOf(0)
NumAdd(x, y) == Norm(x[1] + y[1], x[2] + y[2])
NumSub(x, y) == Norm(x[1] - y[1], x[2] - y[2])
\* x * y, for x below Base.
NumTimes(x, y) == Norm(x[2] * y[1], x[2] * y[2])
NumNeg(x) == x[1] < 0
\* Math.max(0, x)
NumMax0(x) == IF NumNeg(x) THEN Zero ELSE x

\* ToInt32: the operand modulo 2^32, read as a signed 32-bit integer.
ToInt32(x) == <<((x[1] + 2 ^ 16) % (2 ^ 17)) - 2 ^ 16, x[2]>>

\* Half of x, rounded down.
HalfExact(x) == <<x[1] \div 2, ((x[1] % 2) * Base + x[2]) \div 2>>

\* `x >> 1`: the arithmetic shift of ToInt32(x).
Sar1(x) == HalfExact(ToInt32(x))

\* Math.ceil(size / stride) for positive integers.
CeilDiv(size, stride) == (size + stride - 1) \div stride

\* A string is the sequence of its characters.
LowerCase == <<"a", "d", "e", "i", "l", "m", "o", "r", "s", "v", "w">>
UpperCase == <<"A", "D", "E", "I", "L", "M", "O", "R", "S", "V", "W">>

\* A variant that leaves the case of the letters as it is.
KeepCase(str) == str

\* String.prototype.toUpperCase, over the letters the tokens use.
ToUpperCase(str) ==
    [n \in 1..Len(str) |->
        IF \E j \in 1..Len(LowerCase) : LowerCase[j] = str[n]
        THEN UpperCase[CHOOSE j \in 1..Len(LowerCase) : LowerCase[j] = str[n]]
        ELSE str[n]]

VALID == <<"V", "A", "L", "I", "D">>
SAME == <<"S", "A", "M", "E">>
SAME_LOWER == <<"S", "A", "M", "E", "_", "L", "O", "W", "E", "R">>

\* throw new Error(`Unknown padding type: ${padType}`)
UnknownPaddingType == [err |-> "UnknownPaddingType", errSlot |-> 0, ret |-> None]

\* rep(n, value)
Rep(n, value) == [i \in 1..n |-> value]

\* A variant that gives both sides the rounded-down half.
SplitEven(padType, size) == <<Sar1(size), Sar1(size)>>

\* The (before, after) pair of one dimension.
Split(padType, size) ==
    IF padType = SAME
    THEN <<Sar1(size), NumSub(size, Sar1(size))>>
    ELSE <<NumSub(size, Sar1(size)), Sar1(size)>>

\* Math.max(0, (o - 1) * s + 1 + (k - 1) * d - i)
PadSize(o, s, k, d, i) ==
    NumMax0(NumSub(NumAdd(NumAdd(NumTimes(NumOf(o - 1), NumOf(s)), NumOf(1)),
                          NumTimes(NumOf(k - 1), NumOf(d))),
                   NumOf(i)))

padtypeToPads(inShape, filterShape, strides, dilation, padding) ==
    LET padType == ToUpperCase(padding)
    IN  IF padType = VALID THEN Ok(Rep(Len(inShape), <<Zero, Zero>>))
        ELSE IF padType \in {SAME, SAME_LOWER}
        THEN LET outShape == [n \in 1..Len(inShape) |->
                                 CeilDiv(inShape[n], strides[n])]
                 padSizes == [n \in 1..Len(inShape) |->
                                 PadSize(outShape[n], strides[n], filterShape[n],
                                         dilation[n], inShape[n])]
             IN  Ok([n \in 1..Len(inShape) |-> Split(padType, padSizes[n])])
        ELSE UnknownPaddingType

CallPadtypeToPads(inShape, filterShape, strides, dilation, padding) ==
    /\ last' = Sync("padtypeToPads",
                    [inShape |-> inShape, filterShape |-> filterShape,
                     strides |-> strides, dilation |-> dilation,
                     padding |-> padding],
                    padtypeToPads(inShape, filterShape, strides, dilation,
                                  padding))
    /\ UNCHANGED <<buffers, nextSlot, issued, tally, submitted, peer, onnx,
                 client>>

(***************************************************************************)
(* SpecPads: padtypeToPads over one- and two-dimensional inputs, small     *)
(* sizes, dilations small and near 2^31, and tokens in either case.        *)
(***************************************************************************)
BigDilations == {2 ^ 30, 2 ^ 30 + (2 ^ 30 - 1)}

PadInputs ==
    {[inShape |-> <<i>>, filterShape |-> <<k>>, strides |-> <<s>>,
      dilation |-> <<d>>] :
        i \in 1..MaxInSize, k \in 1..MaxFilter, s \in 1..MaxStride,
        d \in (1..MaxDilation) \cup BigDilations}
    \cup
    {[inShape |-> i, filterShape |-> k, strides |-> s, dilation |-> d] :
        i \in {<<3, 4>>, <<1, 2>>}, k \in {<<1, 2>>, <<3, 3>>},
        s \in {<<1, 2>>, <<2, 1>>}, d \in {<<1, 1>>, <<2, 1>>}}

PadTokens ==
    {VALID, SAME, SAME_LOWER,
     <<"s", "a", "m", "e">>, <<"V", "a", "l", "i", "d">>,
     <<"s", "a", "m", "e", "_", "l", "o", "w", "e", "r">>,
     <<"S", "A", "M", "E", "_", "U", "P", "P", "E", "R">>,
     <<"F", "U", "L", "L">>, <<>>}

NextPads ==
    /\ last.op = "new"
    /\ \E a \in PadInputs, t \in PadTokens :
           CallPadtypeToPads(a.inShape, a.filterShape, a.strides, a.dilation, t)

SpecPads == Init /\ [][NextPads]_vars

IsPads(c) == c.op = "padtypeToPads"
Rank(c) == Len(c.args.inShape)

\* max(0, (outSize-1)*stride + 1 + (kernel-1)*dilation - inSize) with
\* outSize = ceil(inSize/stride), for dimension n of call c.
TotalPadding(c, n) ==
    LET i == c.args.inShape[n]
        s == c.args.strides[n]
        k == c.args.filterShape[n]
        d == c.args.dilation[n]
        outSize == IF i % s = 0 THEN i \div s ELSE (i \div s) + 1
        t == NumSub(NumAdd(NumAdd(NumTimes(NumOf(outSize - 1), NumOf(s)),
                                  NumOf(1)),
                           NumTimes(NumOf(k - 1), NumOf(d))),
                    NumOf(i))
    IN  IF NumNeg(t) THEN Zero ELSE t

\* C13: under SAME and SAME_LOWER every dimension gets a pair
\* (before, after) of non-negative integers that add up to the total
\* padding max(0, (outSize-1)*stride + 1 + (kernel-1)*dilation - inSize).
C13_PadsAddUpToTotal ==
    (IsPads(last) /\ last.args.padding \in {SAME, SAME_LOWER}) =>
        /\ Succeeded(last)
        /\ Len(last.ret) = Rank(last)
        /\ \A n \in 1..Rank(last) :
              /\ ~NumNeg(last.ret[n][1])
              /\ ~NumNeg(last.ret[n][2])
              /\ NumAdd(last.ret[n][1], last.ret[n][2]) = TotalPadding(last, n)

\* C14: a total padding p is split as (floor(p/2), ceil(p/2)) under SAME
\* and as (ceil(p/2), floor(p/2)) under SAME_LOWER.
C14_FloorCeilSplit ==
    (IsPads(last) /\ last.args.padding \in {SAME, SAME_LOWER}) =>
        /\ Succeeded(last)
        /\ \A n \in 1..Rank(last) :
              LET p == TotalPadding(last, n)
                  floor == HalfExact(p)
                  ceil == NumSub(p, HalfExact(p))
              IN  last.ret[n] = IF last.args.padding = SAME
                                THEN <<floor, ceil>> ELSE <<ceil, floor>>

\* Strings a and b differ at most in the case of their letters.
SameUpToCase(a, b) ==
    /\ Len(a) = Len(b)
    /\ \A n \in 1..Len(a) :
          \/ a[n] = b[n]
          \/ \E j \in 1..Len(LowerCase) :
                {a[n], b[n]} = {LowerCase[j], UpperCase[j]}

\* C15 as stated: exactly the tokens VALID, SAME and SAME_LOWER are
\* accepted; VALID gives (0, 0) on every dimension and every other token
\* fails and returns no padding.
C15_ExactTokensOnly ==
    IsPads(last) =>
        /\ last.args.padding = VALID =>
              Succeeded(last) /\ last.ret = Rep(Rank(last), <<Zero, Zero>>)
        /\ last.args.padding \in {SAME, SAME_LOWER} => Succeeded(last)
        /\ last.args.padding \notin {VALID, SAME, SAME_LOWER} =>
              last.err = "UnknownPaddingType" /\ last.ret = None

\* C15, amended: the token is compared after conversion to upper case, so
\* VALID, SAME and SAME_LOWER are accepted in any letter case; VALID gives
\* (0, 0) on every dimension, and a token that differs from all three
\* otherwise than by case fails and returns no padding.
C15_TokensUpToCase ==
    IsPads(last) =>
        /\ SameUpToCase(last.args.padding, VALID) =>
              Succeeded(last) /\ last.ret = Rep(Rank(last), <<Zero, Zero>>)
        /\ (\E t \in {SAME, SAME_LOWER} : SameUpToCase(last.args.padding, t)) =>
              Succeeded(last) /\ Len(last.ret) = Rank(last)
        /\ (\A t \in {VALID, SAME, SAME_LOWER} :
               ~SameUpToCase(last.args.padding, t)) =>
              last.err = "UnknownPaddingType" /\ last.ret = None

\* The token "same" has been accepted and has produced a padding.
C15_Witness ==
    /\ IsPads(last) /\ Succeeded(last)
    /\ last.args.padding = <<"s", "a", "m", "e">>
    /\ last.args.inShape = <<4>> /\ last.args.filterShape = <<3>>
    /\ last.args.strides = <<1>> /\ last.args.dilation = <<1>>
    /\ last.ret = <<<<NumOf(1), NumOf(1)>>>>

(***************************************************************************)
(* Shape trackers with several views (src/shape.ts and                     *)
(* src/frontend/convolution.ts are not among the sources; modelled from    *)
(* the design's description of the operations and from the shapes that     *)
(* convolution.test.ts records).  A tracker is the list of its views,      *)
(* oldest first: a strided View followed by the views later operations     *)
(* have appended.  Every view has its logical `shape`.                     *)
(***************************************************************************)
IncompatibleShape == [err |-> "IncompatibleShape", errSlot |-> 0, ret |-> None]

StShape(t) == t[Len(t)].shape
StFromShape(shape) == <<FromShape(shape)>>

\* The row-major flat position of logical indices idxs in `shape`.
Ravel(shape, idxs) ==
    DotFrom(idxs, [d \in 1..Len(shape) |-> ProdFrom(shape, d + 1)], 1)

\* A variant that unravels with the first dimension varying fastest.
UnravelColumnMajor(shape, gidx) ==
    [d \in 1..Len(shape) |->
        (gidx \div (ProdFrom(shape, 1) \div ProdFrom(shape, d))) % shape[d]]

\* The coordinates in `shape` of flat position gidx.
Unravel(shape, gidx) == UnravelAlu(shape, gidx)

\* reshape(newShape)
Reshape(t, newShape) ==
    IF ProdFrom(newShape, 1) # ProdFrom(StShape(t), 1) THEN IncompatibleShape
    ELSE Ok(Append(t, [kind |-> "reshape", shape |-> newShape]))

\* permute(axesOrder): dimension d of the result is dimension axes[d].
Permute(t, axes) ==
    Ok(Append(t, [kind |-> "permute", axes |-> axes,
                  shape |-> [d \in 1..Len(axes) |-> StShape(t)[axes[d]]]]))

\* A variant that lets an expanded dimension advance through the buffer.
ExpandedIndexKept(from, k) == k

\* The index, in a dimension of size `from`, that index k of the
\* expanded dimension reads: an expanded dimension has stride 0.
ExpandedIndex(from, k) == IF from = 1 THEN 0 ELSE k

\* expand(targetShape)
Expand(t, targetShape) ==
    IF \/ Len(targetShape) # Len(StShape(t))
       \/ \E d \in 1..Len(targetShape) :
             StShape(t)[d] # 1 /\ StShape(t)[d] # targetShape[d]
    THEN IncompatibleShape
    ELSE Ok(Append(t, [kind |-> "expand", shape |-> targetShape]))

\* pad(padsPerDim): pads[d] = <<before, after>>.
Pad(t, pads) ==
    Ok(Append(t, [kind |-> "pad", pads |-> pads,
                  shape |-> [d \in 1..Len(pads) |->
                                pads[d][1] + StShape(t)[d] + pads[d][2]]]))

\* The number of window positions along a dimension of size i.
OutExtent(i, k, s) == CeilDiv(i - (k - 1), s)

\* pool(window, strides): rank r becomes 2r, window positions first.
Pool(t, window, strides) ==
    Ok(Append(t, [kind |-> "pool", window |-> window, strides |-> strides,
                  shape |-> [d \in 1..Len(window) |->
                                OutExtent(StShape(t)[d], window[d], strides[d])]
                            \o window]))

\* poolTranspose lays the (offset, position) grid of one dimension out in
\* rows of RowLen cells and cuts the rows into pieces of the input size i;
\* Repeats is the number of pieces, the size of the synthesized dimension.
RowLen(i, k, s) ==
    i * (IF OutExtent(i, k, s) * s > i - (k - 1) THEN 2 ELSE 1) + 1
Repeats(i, k, s) == CeilDiv(k * RowLen(i, k, s), i)

\* poolTranspose(originalShape, window, strides), on a pooled tracker.
PoolTranspose(t, originalShape, window, strides) ==
    Ok(Append(t, [kind |-> "poolTranspose", window |-> window,
                  strides |-> strides,
                  shape |-> originalShape
                            \o [d \in 1..Len(window) |->
                                   Repeats(originalShape[d], window[d],
                                           strides[d])]]))

\* A variant that advances the window by one and the offset by the stride.
PoolCoordSwapped(o, w, s) == o + w * s

\* The coordinate of the original tensor that offset w of the window at
\* position o reads.
PoolCoord(o, w, s) == o * s + w

\* A variant that takes every cell of a row for a window position.
PlacementAnyCell(i, k, s, p, e) ==
    LET q == e * i + p
        c == q % RowLen(i, k, s)
    IN  [o |-> c \div s, w |-> q \div RowLen(i, k, s),
         valid |-> q < k * RowLen(i, k, s) /\ c < OutExtent(i, k, s) * s]

\* A variant whose rows have the length of the input.
PlacementRowOfInput(i, k, s, p, e) ==
    LET q == e * i + p
        c == q % i
    IN  [o |-> c \div s, w |-> q \div i,
         valid |-> /\ q < k * i
                   /\ c < OutExtent(i, k, s) * s
                   /\ c % s = 0]

\* The window placement (o, w) that synthesized coordinate e stands for at
\* position p of a dimension of size i, and whether it is one.
Placement(i, k, s, p, e) ==
    LET q == e * i + p
        c == q % RowLen(i, k, s)
    IN  [o |-> c \div s, w |-> q \div RowLen(i, k, s),
         valid |-> /\ q < k * RowLen(i, k, s)
                   /\ c < OutExtent(i, k, s) * s
                   /\ c % s = 0]

\* The indices of the view below that logical indices idxs of view v
\* stand for, and the validity v adds; `below` is the shape of the view
\* below.
Under(v, below, idxs) ==
    CASE v.kind = "reshape" ->
           [idxs |-> Unravel(below, Ravel(v.shape, idxs)), valid |-> TRUE]
      [] v.kind = "permute" ->
           [idxs |-> [a \in 1..Len(below) |->
                         idxs[CHOOSE d \in 1..Len(v.axes) : v.axes[d] = a]],
            valid |-> TRUE]
      [] v.kind = "expand" ->
           [idxs |-> [d \in 1..Len(below) |-> ExpandedIndex(below[d], idxs[d])],
            valid |-> TRUE]
      [] v.kind = "pad" ->
           [idxs |-> [d \in 1..Len(below) |-> idxs[d] - v.pads[d][1]],
            valid |-> \A d \in 1..Len(below) :
                          /\ v.pads[d][1] <= idxs[d]
                          /\ idxs[d] < v.pads[d][1] + below[d]]
      [] v.kind = "pool" ->
           LET r == Len(v.window)
           IN  [idxs |-> [d \in 1..r |->
                             PoolCoord(idxs[d], idxs[r + d], v.strides[d])],
                valid |-> TRUE]
      [] v.kind = "poolTranspose" ->
           LET r == Len(v.window)
               pl == [d \in 1..r |->
                         Placement(v.shape[d], v.window[d], v.strides[d],
                                   idxs[d], idxs[r + d])]
           IN  [idxs |-> [d \in 1..(2 * r) |->
                             IF d <= r THEN pl[d].o ELSE pl[d - r].w],
                valid |-> \A d \in 1..r : pl[d].valid]

\* toAluExp(indices): the views are composed down to the buffer; the
\* validity is the conjunction of the views' validities.
RECURSIVE StEval(_, _, _)
StEval(t, n, idxs) ==
    IF n = 1 THEN ToAluExp(t[1], idxs)
    ELSE CHOOSE res \in
           UNION {{[index |-> r.index, valid |-> u.valid /\ r.valid] :
                      r \in {StEval(t, n - 1, u.idxs)}} :
                     u \in {Under(t[n], t[n - 1].shape, idxs)}} : TRUE

StToAluExp(t, idxs) == StEval(t, Len(t), idxs)

\* Every tuple of logical indices of `shape`.
Coords(shape) == {UnravelAlu(shape, g) : g \in 0..(ProdFrom(shape, 1) - 1)}

(***************************************************************************)
(* SpecViews: a client builds a tracker with fromShape, grows it by        *)
(* permute / pad / expand / pool / poolTranspose / reshape, and evaluates  *)
(* its expressions with toAluExp at logical indices.                       *)
(***************************************************************************)
TrackerOps ==
    {"fromShape", "reshape", "permute", "expand", "pad", "pool",
     "poolTranspose"}
IsTracker(c) == c.op \in TrackerOps /\ Succeeded(c)
Top(t) == t[Len(t)]
KindsOf(t) == {t[n].kind : n \in 2..Len(t)}
NumberOf(t, kind) == Cardinality({n \in 2..Len(t) : t[n].kind = kind})
BackendIdle == UNCHANGED <<buffers, nextSlot, issued, tally, submitted, peer, onnx,
                 client>>

CallFromShape(shape) ==
    /\ last' = Sync("fromShape", [shape |-> shape], Ok(StFromShape(shape)))
    /\ BackendIdle

CallReshape(newShape) ==
    /\ last' = Sync("reshape", [st |-> last.ret, newShape |-> newShape],
                    Reshape(last.ret, newShape))
    /\ BackendIdle

CallPermute(axes) ==
    /\ last' = Sync("permute", [st |-> last.ret, axes |-> axes],
                    Permute(last.ret, axes))
    /\ BackendIdle

CallExpand(targetShape) ==
    /\ last' = Sync("expand", [st |-> last.ret, targetShape |-> targetShape],
                    Expand(last.ret, targetShape))
    /\ BackendIdle

CallPad(pads) ==
    /\ last' = Sync("pad", [st |-> last.ret, pads |-> pads],
                    Pad(last.ret, pads))
    /\ BackendIdle

CallPool(window, strides) ==
    /\ last' = Sync("pool",
                    [st |-> last.ret, window |-> window, strides |-> strides],
                    Pool(last.ret, window, strides))
    /\ BackendIdle

CallPoolTranspose(originalShape, window, strides) ==
    /\ last' = Sync("poolTranspose",
                    [st |-> last.ret, originalShape |-> originalShape,
                     window |-> window, strides |-> strides],
                    PoolTranspose(last.ret, originalShape, window, strides))
    /\ BackendIdle

\* st.toAluExp(vars) evaluated at `indices`.
CallToAluExp(indices) ==
    /\ last' = Sync("toAluExp", [st |-> last.ret, indices |-> indices],
                    Ok(StToAluExp(last.ret, indices)))
    /\ BackendIdle

\* The shape of the pooling test, and its window and strides.
TestShape == <<7, 12>>
TestWindow == <<2, 2>>
TestStrides == <<1, 2>>

ViewShapes ==
    {<<n>> : n \in 1..MaxExtent}
      \cup {<<a, b>> : a, b \in 1..(MaxExtent - 1)}

PadsOf(shape) ==
    IF Len(shape) = 1 THEN {<<<<1, 0>>>>, <<<<0, 2>>>>}
    ELSE {<<<<1, 0>>, <<0, 1>>>>}

PoolParams(shape) ==
    IF shape = TestShape THEN {[window |-> TestWindow, strides |-> TestStrides]}
    ELSE IF Len(shape) = 1
    THEN {[window |-> <<k>>, strides |-> <<s>>] :
             k \in 1..Min(shape[1], MaxFilter), s \in 1..MaxStride}
    ELSE {[window |-> w, strides |-> s] :
             w \in {x \in {<<1, 2>>, <<2, 2>>, <<2, 1>>} :
                       x[1] <= shape[1] /\ x[2] <= shape[2]},
             s \in {<<1, 1>>, <<1, 2>>, <<2, 1>>}}

NextViews ==
    \/ /\ last.op = "new"
       /\ \E shape \in ViewShapes \cup {TestShape} : CallFromShape(shape)
    \/ /\ IsTracker(last) /\ Len(last.ret) = 1
       /\ Len(StShape(last.ret)) = 2 /\ StShape(last.ret) # TestShape
       /\ CallPermute(<<2, 1>>)
    \/ /\ IsTracker(last) /\ Len(last.ret) = 1
       /\ StShape(last.ret) # TestShape
       /\ \E pads \in PadsOf(StShape(last.ret)) : CallPad(pads)
    \/ /\ IsTracker(last) /\ Len(last.ret) < MaxViews - 1
       /\ KindsOf(last.ret) \cap {"expand", "pool", "reshape"} = {}
       /\ \E target \in ViewShapes :
              Len(target) = Len(StShape(last.ret)) /\ CallExpand(target)
    \/ /\ IsTracker(last) /\ Len(last.ret) < MaxViews - 1
       /\ KindsOf(last.ret) \cap {"expand", "pool", "reshape"} = {}
       /\ \E q \in PoolParams(StShape(last.ret)) :
              CallPool(q.window, q.strides)
    \/ /\ IsTracker(last) /\ Len(last.ret) = 2
       /\ Top(last.ret).kind = "pool"
       /\ CallPoolTranspose(last.ret[1].shape, Top(last.ret).window,
                            Top(last.ret).strides)
    \/ /\ IsTracker(last) /\ Len(last.ret) < MaxViews
       /\ "poolTranspose" \notin KindsOf(last.ret)
       /\ StShape(last.ret) \in ViewShapes
       /\ IF NumberOf(last.ret, "reshape") = 0
          THEN \E newShape \in ViewShapes : CallReshape(newShape)
          ELSE /\ NumberOf(last.ret, "reshape") = 1
               /\ Top(last.ret).kind = "reshape"
               /\ CallReshape(last.ret[Len(last.ret) - 1].shape)
    \/ /\ IsTracker(last)
       /\ \E indices \in Coords(StShape(last.ret)) : CallToAluExp(indices)

SpecViews == Init /\ [][NextViews]_vars

IsEval(c) == c.op = "toAluExp"
\* The first r entries of a sequence, and the rest.
Front(seq, r) == SubSeq(seq, 1, r)
Back(seq, r) == SubSeq(seq, r + 1, Len(seq))

\* C16: pooling an identity tracker of rank r gives rank 2r, and at
\* (o_1..o_r, w_1..w_r) the index is the flat index of the original tensor
\* at coordinate o_d * strides[d] + w_d in every dimension, always valid;
\* [7,12] pooled by window [2,2], strides [1,2] has shape [6,6,2,2] and
\* maps (0,0,0,0), (0,0,0,1), (0,0,1,0), (0,4,1,0) to 0, 1, 12, 20.
C16_PoolIndexesWindows ==
    (IsEval(last) /\ Len(last.args.st) = 2
       /\ Top(last.args.st).kind = "pool") =>
        LET st == last.args.st
            orig == st[1].shape
            r == Len(orig)
            idx == last.args.indices
            coord == [d \in 1..r |-> idx[d] * Top(st).strides[d] + idx[r + d]]
        IN  /\ Len(StShape(st)) = 2 * r
            /\ Back(StShape(st), r) = Top(st).window
            /\ \A d \in 1..r : coord[d] < orig[d]
            /\ last.ret.valid
            /\ last.ret.index = Ravel(orig, coord)
            /\ orig = TestShape =>
                  /\ StShape(st) = <<6, 6, 2, 2>>
                  /\ idx = <<0, 0, 0, 0>> => last.ret.index = 0
                  /\ idx = <<0, 0, 0, 1>> => last.ret.index = 1
                  /\ idx = <<0, 0, 1, 0>> => last.ret.index = 12
                  /\ idx = <<0, 4, 1, 0>> => last.ret.index = 20

\* The pooled [7,12] tracker evaluated at (0,4,1,0).
C16_Witness ==
    /\ IsEval(last) /\ Len(last.args.st) = 2
    /\ Top(last.args.st).kind = "pool"
    /\ last.args.st[1].shape = TestShape
    /\ last.args.indices = <<0, 4, 1, 0>>
    /\ last.ret = [index |-> 20, valid |-> TRUE]

\* C17: after pool and poolTranspose with the same shape, window and
\* strides, at every original position and every combination of the
\* synthesized coordinates, a valid cell has the flat index of the
\* position.
C17_TransposeKeepsPosition ==
    (IsEval(last) /\ Len(last.args.st) > 1
       /\ Top(last.args.st).kind = "poolTranspose") =>
        LET st == last.args.st
            orig == st[1].shape
            pos == Front(last.args.indices, Len(orig))
        IN  /\ Front(StShape(st), Len(orig)) = orig
            /\ last.ret.valid => last.ret.index = Ravel(orig, pos)
            /\ orig = TestShape =>
                  /\ StShape(st) = <<7, 12, 3, 5>>
                  /\ last.ret.valid =>
                        last.ret.index = pos[1] * 12 + pos[2]

\* A valid cell of the transposed [7,12] tracker away from the origin.
C17_Witness ==
    /\ IsEval(last) /\ Len(last.args.st) > 1
       /\ Top(last.args.st).kind = "poolTranspose"
    /\ last.args.st[1].shape = TestShape
    /\ last.args.indices[1] = 3 /\ last.args.indices[2] = 7
    /\ last.args.indices[3] > 0
    /\ last.ret = [index |-> 43, valid |-> TRUE]

\* C18: poolTranspose enumerates the placements: at every original
\* position, every pair (o, w) of window position and in-window offset
\* with o_d * strides[d] + w_d equal to the position in every dimension is
\* what exactly one valid combination of the synthesized coordinates
\* stands for.
C18_TransposeEnumeratesPlacements ==
    (last.op = "poolTranspose" /\ Succeeded(last)) =>
        LET st == last.ret
            v == Top(st)
            pooled == st[Len(st) - 1].shape
            r == Len(v.window)
            orig == Front(v.shape, r)
        IN  \A pos \in Coords(orig) :
              \A pair \in Coords(pooled) :
                 (\A d \in 1..r :
                     pair[d] * v.strides[d] + pair[r + d] = pos[d]) =>
                   Cardinality(
                     {e \in Coords(Back(v.shape, r)) :
                         LET u == Under(v, pooled, pos \o e)
                         IN  u.valid /\ u.idxs = pair}) = 1

\* The transposed [7,12] tracker, in which the position (3, 7) is read by
\* two placements along the first dimension.
C18_Witness ==
    /\ last.op = "poolTranspose" /\ Succeeded(last)
    /\ last.args.originalShape = TestShape
    /\ Cardinality({e \in Coords(Back(StShape(last.ret), 2)) :
                       Under(Top(last.ret), last.args.st[2].shape,
                             <<3, 7>> \o e).valid}) = 2

\* C19: t.reshape(s).reshape(t.shape) evaluates, at every logical index
\* of t.shape, to the index and validity of t.
C19_ReshapeRoundTrip ==
    (last.op = "reshape" /\ Succeeded(last)
       /\ NumberOf(last.ret, "reshape") = 2) =>
        LET t == SubSeq(last.ret, 1, Len(last.ret) - 2)
        IN  /\ StShape(last.ret) = StShape(t)
            /\ \A idxs \in Coords(StShape(t)) :
                  StToAluExp(last.ret, idxs) = StToAluExp(t, idxs)

\* A padded two-dimensional tracker reshaped to one dimension and back.
C19_Witness ==
    /\ last.op = "reshape" /\ Succeeded(last)
    /\ NumberOf(last.ret, "reshape") = 2
    /\ "pad" \in KindsOf(last.ret)
    /\ Len(StShape(last.ret)) = 2
    /\ Len(last.args.st[Len(last.args.st)].shape) = 1
    /\ \E idxs \in Coords(StShape(last.ret)) :
          ~StToAluExp(last.ret, idxs).valid

\* C20: after a size-1 dimension is expanded to n, the flat offset at any
\* index k of that dimension is the offset at k = 0, the other indices
\* being the same.
C20_ExpandedOffsetConstant ==
    (IsEval(last) /\ Len(last.args.st) > 1
       /\ Top(last.args.st).kind = "expand") =>
        LET st == last.args.st
            below == st[Len(st) - 1].shape
        IN  \A d \in 1..Len(below) :
               below[d] = 1 =>
                  last.ret.index
                     = StToAluExp(st, [last.args.indices EXCEPT ![d] = 0]).index

\* The last index of a dimension expanded from 1 to 3, beside a dimension
\* of size 3 at a non-zero index.
C20_Witness ==
    /\ IsEval(last) /\ Len(last.args.st) > 1
       /\ Top(last.args.st).kind = "expand"
    /\ last.args.st[Len(last.args.st) - 1].shape = <<1, 3>>
    /\ StShape(last.args.st) = <<3, 3>>
    /\ last.args.indices = <<2, 1>>
    /\ last.ret.index = 1

(***************************************************************************)
(* ONNXModel: a loaded graph, its cached initializers and its run          *)
(* function.  np.Array objects are entries of onnx.arrays, each with the   *)
(* number of references held on it; an entry is never dropped, so a freed  *)
(* array stays visible with rc = 0.                                        *)
(***************************************************************************)
MaxRuns == 2       \* run() calls explored per model
MaxDisposals == 2  \* dispose() calls explored per model

NewArr(shape) == [rc |-> 1, shape |-> shape, byModel |-> 0]
\* arr.ref
Ref(arrs, a) == [arrs EXCEPT ![a].rc = @ + 1]
\* arr.dispose()
Dispose(arrs, a) == [arrs EXCEPT ![a].rc = @ - 1]

Put(map, name, v) ==
    [n \in DOMAIN map \cup {name} |-> IF n = name THEN v ELSE map[n]]
Remove(map, names) == [n \in DOMAIN map \ names |-> map[n]]
Range(seq) == {seq[k] : k \in DOMAIN seq}

\* for (const ar of vars.values()) ar.dispose()
RECURSIVE DisposeValues(_, _, _)
DisposeValues(arrs, map, names) ==
    IF names = {} THEN arrs
    ELSE LET n == CHOOSE x \in names : TRUE
         IN  DisposeValues(Dispose(arrs, map[n]), map, names \ {n})

\* The messages run() and the constructor throw.
MissingInput == "Missing input"
ExtraInputs == "Expected inputs, but got extra inputs"
AlreadyDisposed == "Model has already been disposed"
RankMismatch == "onnx: rank mismatch"
ShapeMismatch == "onnx: shape mismatch"
Unsupported == "Unsupported ONNX operation"
MissingNodeInput == "Missing input for node"
MissingOutput == "Missing output"
DuplicateInput == "ONNX model has duplicate input"

\* A dimension given by dim_param (dynamic) rather than dim_value.
DimParam == 0

validateTensorShape(name, shape, valueInfo) ==
    IF name \notin DOMAIN valueInfo THEN "none"
    ELSE LET dims == valueInfo[name]
         IN  IF Len(dims) # Len(shape) THEN RankMismatch
             ELSE IF \E i \in 1..Len(dims) :
                        dims[i] # DimParam /\ shape[i] # dims[i]
                  THEN ShapeMismatch
                  ELSE "none"

\* The operations with a handler among those explored.
Handlers == {"Add", "Mul", "Neg", "Clip", "Identity"}

\* handler(inputs, attrs): Identity returns its input; the others hand
\* every input they were given to a jax function, which consumes it, and
\* return one new array.
Handler(opType, arrs, inputs) ==
    IF opType = "Identity"
    THEN [arrs |-> arrs, results |-> <<inputs[1][1]>>]
    ELSE LET given == SelectSeq(inputs, IsSome)
             consumed == DisposeValues(arrs, [k \in DOMAIN given |-> given[k][1]],
                                       DOMAIN given)
         IN  [arrs |-> Append(consumed, NewArr(arrs[given[1][1]].shape)),
              results |-> <<Len(arrs) + 1>>]

\* The loop of executeNode over node.input: acc is [arrs, inputs, err].
RECURSIVE TakeRefs(_, _, _, _)
TakeRefs(names, k, map, acc) ==
    IF k > Len(names) THEN acc
    ELSE IF names[k] = ""
    THEN TakeRefs(names, k + 1, map,
                  [acc EXCEPT !.inputs = Append(@, None)])
    ELSE IF names[k] \notin DOMAIN map
    THEN [acc EXCEPT !.err = MissingNodeInput]
    ELSE TakeRefs(names, k + 1, map,
                  [acc EXCEPT !.arrs = Ref(@, map[names[k]]),
                              !.inputs = Append(@, Some(map[names[k]]))])

executeNode(node, map, arrs) ==
    IF node.opType \notin Handlers
    THEN [arrs |-> arrs, results |-> <<>>, err |-> Unsupported]
    ELSE LET t == TakeRefs(node.input, 1, map,
                           [arrs |-> arrs, inputs |-> <<>>, err |-> "none"])
         IN  IF t.err # "none"
             THEN [arrs |-> t.arrs, results |-> <<>>, err |-> t.err]
             ELSE LET h == Handler(node.opType, t.arrs, t.inputs)
                  IN  [arrs |-> h.arrs, results |-> h.results, err |-> "none"]

\* The loop of run over node.output: st is [arrs, vars, err].
RECURSIVE StoreResults(_, _, _, _, _)
StoreResults(node, results, i, valueInfo, st) ==
    IF i > Len(node.output) THEN st
    ELSE LET e == validateTensorShape(node.output[i],
                                      st.arrs[results[i]].shape, valueInfo)
         IN  IF e # "none" THEN [st EXCEPT !.err = e]
             ELSE StoreResults(node, results, i + 1, valueInfo,
                               [st EXCEPT !.vars = Put(@, node.output[i],
                                                       results[i])])

\* The loop of run over graph.node: st is [arrs, vars, err, executed].
RECURSIVE RunNodes(_, _, _)
RunNodes(graph, k, st) ==
    IF k > Len(graph.node) THEN st
    ELSE LET r == executeNode(graph.node[k], st.vars, st.arrs)
         IN  IF r.err # "none"
             THEN [st EXCEPT !.arrs = r.arrs, !.err = r.err]
             ELSE LET s == StoreResults(graph.node[k], r.results, 1,
                                        graph.valueInfo,
                                        [arrs |-> r.arrs, vars |-> st.vars,
                                         err |-> "none"])
                      done == [arrs |-> s.arrs, vars |-> s.vars,
                               err |-> s.err, executed |-> st.executed + 1]
                  IN  IF s.err # "none" THEN done
                      ELSE RunNodes(graph, k + 1, done)

\* The loop of run over inputNames: st is [arrs, vars, err, executed].
RECURSIVE BindInputs(_, _, _, _, _)
BindInputs(inputNames, k, inputs, valueInfo, st) ==
    IF k > Len(inputNames) THEN st
    ELSE LET name == inputNames[k]
             e == validateTensorShape(name, st.arrs[inputs[name]].shape,
                                      valueInfo)
         IN  IF e # "none" THEN [st EXCEPT !.err = e]
             ELSE BindInputs(inputNames, k + 1, inputs, valueInfo,
                             [st EXCEPT !.vars = Put(@, name, inputs[name])])

\* A variant that puts the cached array into vars without a reference of
\* its own.
HoldInitializerUnretained(arrs, a) == arrs

\* vars.set(name, arr.ref)
HoldInitializer(arrs, a) == Ref(arrs, a)

RECURSIVE HoldInitializers(_, _, _)
HoldInitializers(arrs, map, names) ==
    IF names = {} THEN arrs
    ELSE LET n == CHOOSE x \in names : TRUE
         IN  HoldInitializers(HoldInitializer(arrs, map[n]), map,
                              names \ {n})

\* A variant that never notices the disposal.
NeverDisposed(size, numInitializers) == FALSE

\* initializers.size !== numInitializers
IsDisposed(size, numInitializers) == size # numInitializers

Thrown(arrs, err) ==
    [arrs |-> arrs, err |-> err, outputs |-> EmptyMap, executed |-> 0]

\* The function modelAsJaxFunction returns, called without options.
RunResult(m, arrs, inputs) ==
    IF \E k \in 1..Len(m.inputNames) : m.inputNames[k] \notin DOMAIN inputs
    THEN Thrown(arrs, MissingInput)
    ELSE IF Cardinality(DOMAIN inputs) # Len(m.inputNames)
    THEN Thrown(arrs, ExtraInputs)
    ELSE IF IsDisposed(Cardinality(DOMAIN m.initializers), m.numInitializers)
    THEN Thrown(arrs, AlreadyDisposed)
    ELSE
    LET held == [arrs |-> HoldInitializers(arrs, m.initializers,
                                           DOMAIN m.initializers),
                 vars |-> m.initializers, err |-> "none", executed |-> 0]
        bound == BindInputs(m.inputNames, 1, inputs, m.graph.valueInfo, held)
        ran == IF bound.err = "none" THEN RunNodes(m.graph, 1, bound)
               ELSE bound
        outputNames == Range(m.graph.output)
        err == IF ran.err # "none" THEN ran.err
               ELSE IF outputNames \subseteq DOMAIN ran.vars THEN "none"
               ELSE MissingOutput
        outputs == IF err = "none"
                   THEN [n \in outputNames |-> ran.vars[n]]
                   ELSE EmptyMap
        rest == IF err = "none" THEN Remove(ran.vars, outputNames)
                ELSE ran.vars
    IN  [arrs |-> DisposeValues(ran.arrs, rest, DOMAIN rest), err |-> err,
         outputs |-> outputs, executed |-> ran.executed]

\* parseInitializers: one array per tensor of graph.initializer, in the
\* order of the names.
InitializerOrder == <<"w", "v">>
Position(seq, x) == CHOOSE k \in DOMAIN seq : seq[k] = x
ParsedNames(graph) ==
    SelectSeq(InitializerOrder, LAMBDA n : n \in DOMAIN graph.initializer)

\* inputNames of modelAsJaxFunction: the graph inputs that are no
\* initializer.
InputNamesOf(graph) ==
    SelectSeq(graph.input, LAMBDA n : n \notin DOMAIN graph.initializer)
HasDuplicate(seq) ==
    \E i, j \in DOMAIN seq : i < j /\ seq[i] = seq[j]

\* A variant of dispose() that leaves the map as it is.
KeptInitializers(map) == map

\* this.#initializers.clear()
ClearedInitializers(map) == EmptyMap

\* for (const arr of this.#initializers.values()) arr.dispose()
RECURSIVE DisposeInitializers(_, _, _)
DisposeInitializers(arrs, map, names) ==
    IF names = {} THEN arrs
    ELSE LET n == CHOOSE x \in names : TRUE
         IN  DisposeInitializers(
                 [Dispose(arrs, map[n]) EXCEPT ![map[n]].byModel = @ + 1],
                 map, names \ {n})

RunErr(err, outputs) == [err |-> err, errSlot |-> 0, ret |-> outputs]

\* new ONNXModel(modelBytes)
NewONNXModel(graph) ==
    /\ ~onnx.loaded
    /\ LET names == ParsedNames(graph)
           arrs == [k \in 1..Len(names) |->
                       NewArr(graph.initializer[names[k]])]
           inits == [n \in DOMAIN graph.initializer |-> Position(names, n)]
           dup == HasDuplicate(InputNamesOf(graph))
       IN  /\ onnx' = IF dup THEN [NoModel EXCEPT !.arrays = arrs]
                      ELSE [NoModel EXCEPT
                               !.loaded = TRUE, !.graph = graph,
                               !.inputNames = InputNamesOf(graph),
                               !.initializers = inits,
                               !.numInitializers =
                                   Cardinality(DOMAIN inits),
                               !.weights = inits, !.arrays = arrs,
                               !.before = arrs]
           /\ last' = Sync("ONNXModel", [graph |-> graph],
                           RunErr(IF dup THEN DuplicateInput ELSE "none",
                                  EmptyMap))
    /\ UNCHANGED <<buffers, nextSlot, issued, tally, submitted, peer,
                   client>>

\* The caller makes one new array per name of `given`, each of the shape
\* given for it, and passes them as `inputs`.
CallerOrder == <<"x", "y", "u">>
Run(given) ==
    /\ onnx.loaded
    /\ onnx.runs < MaxRuns
    /\ LET names == SelectSeq(CallerOrder, LAMBDA n : n \in DOMAIN given)
           made == onnx.arrays \o [k \in 1..Len(names) |->
                                      NewArr(given[names[k]])]
           inputs == [n \in DOMAIN given |->
                         Len(onnx.arrays) + Position(names, n)]
       IN  \E r \in {RunResult(onnx, made, inputs)} :
              /\ onnx' = [onnx EXCEPT !.arrays = r.arrs, !.before = made,
                                      !.executed = r.executed,
                                      !.runs = @ + 1]
              /\ last' = Sync("run", [inputs |-> inputs],
                              RunErr(r.err, r.outputs))
    /\ UNCHANGED <<buffers, nextSlot, issued, tally, submitted, peer,
                   client>>

\* model.dispose()
DisposeModel ==
    /\ onnx.loaded
    /\ onnx.disposals < MaxDisposals
    /\ onnx' = [onnx EXCEPT
                   !.arrays = DisposeInitializers(@, onnx.initializers,
                                                  DOMAIN onnx.initializers),
                   !.before = onnx.arrays,
                   !.initializers = ClearedInitializers(@),
                   !.disposals = @ + 1]
    /\ last' = Sync("dispose", [inputs |-> EmptyMap], RunErr("none", EmptyMap))
    /\ UNCHANGED <<buffers, nextSlot, issued, tally, submitted, peer,
                   client>>

\* The graphs explored.  Every graph is in SSA form: no node output has
\* the name of a graph input, of an initializer or of another node output.
Vec == <<2>>
Node(opType, input, output) ==
    [opType |-> opType, input |-> input, output |-> output]
Graph(input, initializer, node, output, valueInfo) ==
    [input |-> input, initializer |-> initializer, node |-> node,
     output |-> output, valueInfo |-> valueInfo]
W == [n \in {"w"} |-> Vec]
WV == [n \in {"w", "v"} |-> Vec]
NoInfo == EmptyMap
\* h = x + w
Affine ==
    Graph(<<"x", "w">>, W, <<Node("Add", <<"x", "w">>, <<"h">>)>>, <<"h">>,
          NoInfo)
\* z = clip((x + y) * w, max = v), with the shapes of x, y and z declared.
TwoInputs ==
    Graph(<<"x", "y">>, WV,
          <<Node("Add", <<"x", "y">>, <<"h">>),
            Node("Mul", <<"h", "w">>, <<"g">>),
            Node("Clip", <<"g", "", "v">>, <<"z">>)>>,
          <<"z">>,
          [n \in {"x", "y", "z"} |-> IF n = "y" THEN <<DimParam>> ELSE Vec])
\* The input and the weight are themselves outputs.
PassThrough ==
    Graph(<<"x">>, W, <<Node("Identity", <<"x">>, <<"h">>)>>,
          <<"h", "x", "w">>, NoInfo)
\* A node reads a name nothing defines.
Dangling ==
    Graph(<<"x">>, W,
          <<Node("Neg", <<"x">>, <<"h">>),
            Node("Add", <<"w", "h", "q">>, <<"z">>)>>,
          <<"z">>, NoInfo)
\* A node has no handler.
Unhandled ==
    Graph(<<"x">>, W,
          <<Node("Mul", <<"x", "w">>, <<"h">>),
            Node("Custom", <<"h">>, <<"z">>)>>,
          <<"z">>, NoInfo)
\* No initializer.
Weightless ==
    Graph(<<"x">>, EmptyMap, <<Node("Neg", <<"x">>, <<"h">>)>>, <<"h">>,
          NoInfo)
\* An output nothing defines, and a declared shape the node's result
\* does not have.
NoSuchOutput ==
    Graph(<<"x">>, W, <<Node("Add", <<"x", "w">>, <<"h">>)>>, <<"h", "z">>,
          NoInfo)
WrongResult ==
    Graph(<<"x">>, W,
          <<Node("Identity", <<"x">>, <<"h">>),
            Node("Add", <<"h", "w">>, <<"z">>)>>,
          <<"z">>, [n \in {"h"} |-> <<2, 2>>])
\* An input listed twice.
Repeated ==
    Graph(<<"x", "x">>, W, <<Node("Add", <<"x", "w">>, <<"h">>)>>, <<"h">>,
          NoInfo)
Graphs ==
    {Affine, TwoInputs, PassThrough, Dangling, Unhandled, Weightless,
     NoSuchOutput, WrongResult, Repeated}

\* What a caller passes: arrays for any of the names x, y, u, the one for
\* x of the declared shape or of another.
GivenInputs ==
    {g \in UNION {[S -> {Vec, <<3>>}] : S \in SUBSET Range(CallerOrder)} :
        \A n \in DOMAIN g : n # "x" => g[n] = Vec}

NextModel ==
    \/ \E g \in Graphs : NewONNXModel(g)
    \/ \E g \in GivenInputs : Run(g)
    \/ DisposeModel

SpecModel == Init /\ [][NextModel]_vars

IsRun(c) == c.op = "run"
\* The references on array a that a run handed to its caller.
HandedBack(outputs, a) == Cardinality({n \in DOMAIN outputs : outputs[n] = a})

\* C21: after run has returned or thrown, every array passed in inputs has
\* had the caller's reference released exactly once, or has been handed
\* back among the outputs: the references left on it are those the caller
\* got back.
C21_InputsConsumed ==
    IsRun(last) =>
        \A n \in DOMAIN last.args.inputs :
            LET a == last.args.inputs[n]
            IN  /\ onnx.before[a].rc = 1
                /\ onnx.arrays[a].rc = HandedBack(last.ret, a)

\* The arrays parseInitializers made for the model.
Weights == {onnx.weights[n] : n \in DOMAIN onnx.weights}
ExactInputs(c) == DOMAIN c.args.inputs = Range(onnx.inputNames)

C23_DisposedRunSaysDisposed ==
    (IsRun(last) /\ onnx.disposals > 0 /\ onnx.numInitializers >= 1) =>
        /\ last.err = AlreadyDisposed
        /\ onnx.executed = 0

\* C23, as the code has it: such a run fails before a node is executed
\* and touches no array; the failure is 'Model has already been disposed'
\* when the inputs are those of the graph, and the failure of the input
\* check otherwise.
C23_DisposedRunExecutesNothing ==
    (IsRun(last) /\ onnx.disposals > 0 /\ onnx.numInitializers >= 1) =>
        /\ onnx.executed = 0
        /\ onnx.arrays = onnx.before
        /\ last.err \in {MissingInput, ExtraInputs, AlreadyDisposed}
        /\ ExactInputs(last) <=> last.err = AlreadyDisposed

\* A run with the right inputs after dispose().
C23_Witness ==
    /\ IsRun(last) /\ onnx.disposals > 0 /\ onnx.numInitializers >= 1
    /\ ExactInputs(last)
    /\ last.err = AlreadyDisposed

\* C30: dispose() is idempotent: after any number of dispose() calls the
\* model has released each initializer exactly once, and the second and
\* later calls release nothing.
C30_DisposeIdempotent ==
    /\ onnx.disposals >= 1 =>
          \A a \in Weights : onnx.arrays[a].byModel = 1
    /\ onnx.disposals = 0 =>
          \A a \in Weights : onnx.arrays[a].byModel = 0
    /\ (last.op = "dispose" /\ onnx.disposals >= 2) =>
          onnx.arrays = onnx.before

\* The second dispose() of a model whose initializer a run has handed to
\* the caller before: the caller's reference is the one that is left.
C30_Witness ==
    /\ last.op = "dispose" /\ onnx.disposals = 2
    /\ \E a \in Weights :
          onnx.arrays[a].rc = 1 /\ onnx.arrays[a].byModel = 1

(***************************************************************************)
(* The ONNX movement handlers Flatten and Slice.  An np.Array is a shape   *)
(* and its elements in row-major order; reshape, slice, concatenate and    *)
(* zeros are those of the array library.                                   *)
(***************************************************************************)
MaxLen == 4    \* lengths of the sliced dimension explored
MaxStep == 3   \* steps explored

Arr(shape, data) == [shape |-> shape, data |-> data]
Numel(shape) == ProdFrom(shape, 1)
At(arr, idxs) == arr.data[Ravel(arr.shape, idxs) + 1]
\* The array of the given shape whose element at idxs is F(idxs).
Build(shape, F(_)) ==
    Arr(shape, [g \in 1..Numel(shape) |-> F(UnravelAlu(shape, g - 1))])
\* An array whose elements are 1, 2, 3, ... in row-major order.
Iota(shape) == Arr(shape, [g \in 1..Numel(shape) |-> g])

\* x.reshape(shape), where one entry of shape may be -1.
NpReshape(x, shape) ==
    LET known == {d \in DOMAIN shape : shape[d] # -1}
        rest == Numel([d \in DOMAIN shape |->
                          IF d \in known THEN shape[d] ELSE 1])
    IN  Arr([d \in DOMAIN shape |->
                IF d \in known THEN shape[d] ELSE Numel(x.shape) \div rest],
            x.data)
\* np.zeros(shape)
NpZeros(shape) == Arr(shape, [g \in 1..Numel(shape) |-> 0])
\* np.concatenate([a, b], axis), the axis counted from 0.
NpConcatenate(a, b, axis) ==
    Build([a.shape EXCEPT ![axis + 1] = @ + b.shape[axis + 1]],
          LAMBDA idxs :
              IF idxs[axis + 1] < a.shape[axis + 1] THEN At(a, idxs)
              ELSE At(b, [idxs EXCEPT ![axis + 1] = @ - a.shape[axis + 1]]))
\* x.slice(...[start, end]) over every dimension.
NpSlice(x, ranges) ==
    Build([d \in DOMAIN x.shape |-> ranges[d][2] - ranges[d][1]],
          LAMBDA idxs : At(x, [d \in DOMAIN idxs |-> idxs[d] + ranges[d][1]]))
\* x.slice(...) with the number `index` on one axis, which drops the axis.
NpSelect(x, axis, index) ==
    Build([d \in 1..(Len(x.shape) - 1) |->
              IF d <= axis THEN x.shape[d] ELSE x.shape[d + 1]],
          LAMBDA idxs :
              At(x, [d \in DOMAIN x.shape |->
                        IF d <= axis THEN idxs[d]
                        ELSE IF d = axis + 1 THEN index
                        ELSE idxs[d - 1]]))

\* Flatten([x], {axis})
Flatten(x, axis) ==
    LET ax == IF axis <= 0 THEN axis + Len(x.shape) ELSE axis
        batchSize == Numel(SubSeq(x.shape, 1, ax))
    IN  NpReshape(x, <<batchSize, -1>>)

StepNotPositive == "Slice with step <= 0 is not supported"

\* The first loop of Slice: acc is [err, ranges], a range being
\* <<start, end, step>>.
RECURSIVE SliceRanges(_, _, _, _, _, _, _)
SliceRanges(shape, starts, ends, targetAxes, steps, i, acc) ==
    IF i > Len(targetAxes) THEN acc
    ELSE LET axis == IF targetAxes[i] < 0 THEN targetAxes[i] + Len(shape)
                     ELSE targetAxes[i]
             step == IF IsSome(steps) THEN steps[1][i] ELSE 1
             dimSize == shape[axis + 1]
             start0 == IF starts[i] < -dimSize THEN 0
                       ELSE IF starts[i] < 0 THEN dimSize + starts[i]
                       ELSE starts[i]
             end0 == IF ends[i] < -dimSize THEN 0
                     ELSE IF ends[i] < 0 THEN dimSize + ends[i]
                     ELSE ends[i]
             start == Max(0, Min(start0, dimSize))
             end == Max(start, Min(end0, dimSize))
         IN  IF step <= 0 THEN [acc EXCEPT !.err = StepNotPositive]
             ELSE SliceRanges(shape, starts, ends, targetAxes, steps, i + 1,
                              [acc EXCEPT !.ranges[axis + 1] =
                                              <<start, end, step>>])

\* A variant that rounds the number of kept elements down.
OutLenFloor(len, step) == len \div step

\* Math.ceil(len / step)
OutLen(len, step) == CeilDiv(len, step)

\* The second loop of Slice, from `axis` (counted from 0) on.
RECURSIVE Strided(_, _, _)
Strided(result, ranges, axis) ==
    IF axis >= Len(ranges) THEN result
    ELSE LET r == ranges[axis + 1]
             step == r[3]
             len == r[2] - r[1]
             outLen == OutLen(len, step)
             padded == outLen * step
             whole == IF padded > len
                      THEN NpConcatenate(
                               result,
                               NpZeros([result.shape EXCEPT
                                           ![axis + 1] = padded - len]),
                               axis)
                      ELSE result
             newShape == SubSeq(whole.shape, 1, axis) \o <<outLen, step>>
                         \o SubSeq(whole.shape, axis + 2, Len(whole.shape))
         IN  IF step = 1 THEN Strided(result, ranges, axis + 1)
             ELSE Strided(NpSelect(NpReshape(whole, newShape), axis + 1, 0),
                          ranges, axis + 1)

\* Slice([data, starts, ends, axes, steps]); axes and steps may be absent.
Slice(data, starts, ends, axes, steps) ==
    LET targetAxes == IF IsSome(axes) THEN axes[1]
                      ELSE [i \in DOMAIN starts |-> i - 1]
        full == [d \in DOMAIN data.shape |-> <<0, data.shape[d], 1>>]
        rs == SliceRanges(data.shape, starts, ends, targetAxes, steps, 1,
                          [err |-> "none", ranges |-> full])
    IN  IF rs.err # "none"
        THEN [err |-> rs.err, errSlot |-> 0, ret |-> None]
        ELSE Ok(Strided(NpSlice(data, rs.ranges), rs.ranges, 0))

CallFlatten(shape, axis) ==
    /\ last' = Sync("Flatten", [x |-> Iota(shape), axis |-> axis],
                    Ok(Flatten(Iota(shape), axis)))
    /\ UNCHANGED <<buffers, nextSlot, issued, tally, submitted, peer, onnx,
                   client>>

CallSlice(shape, starts, ends, axes, steps) ==
    /\ last' = Sync("Slice",
                    [data |-> Iota(shape), starts |-> starts, ends |-> ends,
                     axes |-> axes, steps |-> steps],
                    Slice(Iota(shape), starts, ends, axes, steps))
    /\ UNCHANGED <<buffers, nextSlot, issued, tally, submitted, peer, onnx,
                   client>>

\* INT_MAX, which ONNX exporters write for "to the end".
IntMax == 2147483647
FlattenShapes == UNION {[1..r -> 1..MaxExtent] : r \in 1..3}
Bounds1 == (-(MaxLen + 1)..(MaxLen + 1)) \cup {IntMax, -IntMax}
Steps1 == {None} \cup {Some(<<k>>) : k \in -1..MaxStep}
\* Slices of a matrix along its second axis, along its first, and along
\* both, given in either order.
MatrixSlices ==
    {[starts |-> <<a>>, ends |-> <<b>>, axes |-> Some(<<ax>>), steps |-> st] :
        a \in {0, 1, -1}, b \in {2, 3, -1, IntMax}, ax \in {1, -2},
        st \in {None, Some(<<2>>)}}
    \cup
    {[starts |-> <<a, 0>>, ends |-> <<b, 1>>, axes |-> ax,
      steps |-> Some(<<k, 1>>)] :
        a \in {0, 1, -1}, b \in {2, 3, -1, IntMax},
        ax \in {None, Some(<<1, 0>>)}, k \in 0..2}

NextMoves ==
    \/ /\ last.op = "new"
       /\ \E shape \in FlattenShapes :
             \E axis \in (-Len(shape))..Len(shape) : CallFlatten(shape, axis)
    \/ /\ last.op = "new"
       /\ \E n \in 1..MaxLen, a, b \in Bounds1, st \in Steps1,
             ax \in {None, Some(<<0>>), Some(<<-1>>)} :
             CallSlice(<<n>>, <<a>>, <<b>>, ax, st)
    \/ /\ last.op = "new"
       /\ \E shape \in {<<2, 3>>, <<3, 3>>}, c \in MatrixSlices :
             CallSlice(shape, c.starts, c.ends, c.axes, c.steps)

SpecMoves == Init /\ [][NextMoves]_vars

\* C24: Flatten returns the 2D shape [product of shape[0:axis], product
\* of shape[axis:]] for every axis in [-ndim, ndim], a negative axis
\* counting from the end; axis = 0 gives [1, number of elements].
C24_FlattenShape ==
    last.op = "Flatten" =>
        LET shape == last.args.x.shape
            axis == IF last.args.axis < 0 THEN last.args.axis + Len(shape)
                    ELSE last.args.axis
        IN  /\ last.ret.shape
                 = <<Numel(SubSeq(shape, 1, axis)),
                     Numel(SubSeq(shape, axis + 1, Len(shape)))>>
            /\ last.ret.data = last.args.x.data

\* The position on an axis of size dim that the number v stands for:
\* negative values count from the end, out-of-range values are clamped.
Normalized(v, dim) == Max(0, Min(IF v < 0 THEN v + dim ELSE v, dim))
\* The axes of a Slice call, counted from 0, and the place of an axis
\* among them.
SlicedAxes(c) ==
    LET given == IF IsSome(c.args.axes) THEN c.args.axes[1]
                 ELSE [i \in DOMAIN c.args.starts |-> i - 1]
    IN  [i \in DOMAIN given |->
            IF given[i] < 0 THEN given[i] + Len(c.args.data.shape)
            ELSE given[i]]
StepOf(c, i) == IF IsSome(c.args.steps) THEN c.args.steps[1][i] ELSE 1
\* <<start, end, step>> of dimension d (counted from 1) as the claim has
\* them.
ExpectedRange(c, d) ==
    LET axes == SlicedAxes(c)
        dim == c.args.data.shape[d]
    IN  IF \E i \in DOMAIN axes : axes[i] = d - 1
        THEN LET i == CHOOSE i \in DOMAIN axes : axes[i] = d - 1
                 start == Normalized(c.args.starts[i], dim)
             IN  <<start, Max(start, Normalized(c.args.ends[i], dim)),
                   StepOf(c, i)>>
        ELSE <<0, dim, 1>>

\* C25: for steps >= 1, Slice normalizes start and end of every sliced
\* axis to 0 <= start <= end <= dimSize and returns along the axis the
\* input elements at start, start+step, start+2*step, ... below end, in
\* order: ceil((end-start)/step) of them; a step <= 0 fails with an error.
C25_SliceSelectsStrided ==
    last.op = "Slice" =>
        LET data == last.args.data
            n == Len(SlicedAxes(last))
            rg == [d \in DOMAIN data.shape |-> ExpectedRange(last, d)]
        IN  IF \E i \in 1..n : StepOf(last, i) <= 0
            THEN last.err = StepNotPositive
            ELSE /\ Succeeded(last)
                 /\ \A d \in DOMAIN rg :
                       /\ 0 <= rg[d][1] /\ rg[d][1] <= rg[d][2]
                       /\ rg[d][2] <= data.shape[d]
                 /\ last.ret.shape
                      = [d \in DOMAIN rg |->
                            CeilDiv(rg[d][2] - rg[d][1], rg[d][3])]
                 /\ \A idxs \in Coords(last.ret.shape) :
                       /\ \A d \in DOMAIN rg :
                             rg[d][1] + idxs[d] * rg[d][3] < rg[d][2]
                       /\ At(last.ret, idxs)
                            = At(data, [d \in DOMAIN rg |->
                                           rg[d][1] + idxs[d] * rg[d][3]])

\* Elements 1 and 3 of a row of four: start -3, end INT_MAX, step 2, where
\* the last group of two is completed by padding.
C25_Witness ==
    /\ last.op = "Slice" /\ Succeeded(last)
    /\ last.args.data.shape = <<4>>
    /\ last.args.starts = <<-3>> /\ last.args.ends = <<IntMax>>
    /\ last.args.steps = Some(<<2>>)
    /\ last.ret = Arr(<<2>>, <<2, 4>>)

\* C26: in every reachable state of a CPUBackend, every slot in the table
\* has a reference count of at least 1 and a handle below the next handle
\* to be issued; no entry with a count of 0 or less stays in the table.
C26_TableWellFormed ==
    \A s \in DOMAIN buffers :
        /\ buffers[s].ref >= 1
        /\ FirstSlot <= s /\ s < nextSlot

\* A decRef has just dropped one slot from the table while another is
\* held twice.
C26_Witness ==
    /\ last.op = "decRef" /\ Succeeded(last)
    /\ last.args.slot \in issued \ DOMAIN buffers
    /\ \E s \in DOMAIN buffers : buffers[s].ref >= 2

\* ceil(inSize / stride), by quotient and remainder.
SameSize(i, s) == IF i % s = 0 THEN i \div s ELSE (i \div s) + 1
\* inSize + before + after - ((kernel-1)*dilation + 1) for dimension n of
\* call c.
Covered(c, n) ==
    NumSub(NumAdd(NumOf(c.args.inShape[n]), NumAdd(c.ret[n][1], c.ret[n][2])),
           NumAdd(NumTimes(NumOf(c.args.filterShape[n] - 1),
                           NumOf(c.args.dilation[n])),
                  NumOf(1)))

\* C27: the pads returned for SAME and SAME_LOWER keep the SAME output
\* size: floor((inSize + before + after - ((kernel-1)*dilation + 1))
\* / stride) + 1 = ceil(inSize / stride) in every dimension.
C27_SameOutputSize ==
    (IsPads(last) /\ Succeeded(last)
       /\ ToUpperCase(last.args.padding) \in {SAME, SAME_LOWER}) =>
        \A n \in 1..Rank(last) :
            LET covered == Covered(last, n)
            IN  /\ covered[1] = 0
                /\ (covered[2] \div last.args.strides[n]) + 1
                     = SameSize(last.args.inShape[n], last.args.strides[n])

\* SAME_LOWER with input 4, kernel 3, stride 3, dilation 2: the total
\* padding 4 is split and two windows of extent 5 fit.
C27_Witness ==
    /\ IsPads(last) /\ Succeeded(last)
    /\ last.args.padding = SAME_LOWER
    /\ last.args.inShape = <<4>> /\ last.args.filterShape = <<3>>
    /\ last.args.strides = <<3>> /\ last.args.dilation = <<2>>
    /\ last.ret = <<<<NumOf(2), NumOf(2)>>>>
    /\ Covered(last, 1) = NumOf(3)

IsReadCall(c) == c.op \in {"readSync", "read"}
IsExecCall(c) == c.op \in {"executeOpSync", "executeOp"}

\* C28: readSync, read, executeOpSync and executeOp never change which
\* slots are live, any slot's reference count or the next handle to be
\* issued; the reads change no buffer contents, and the kernels change the
\* contents of the output slots' buffers only.
C28_ReadsAndKernelsKeepTable ==
    [][ (IsReadCall(last') \/ IsExecCall(last')) =>
          /\ DOMAIN buffers' = DOMAIN buffers
          /\ \A s \in DOMAIN buffers : buffers'[s].ref = buffers[s].ref
          /\ nextSlot' = nextSlot
          /\ IsReadCall(last') => buffers' = buffers
          /\ IsExecCall(last') =>
                \A s \in DOMAIN buffers :
                    s \notin Range(last'.args.outputs) =>
                        buffers'[s].buffer = buffers[s].buffer ]_vars

\* An asynchronous Mul of slot 1 with itself has written 1 into slot 2,
\* and slot 1 still holds its 1.
C28_Witness ==
    /\ last.op = "executeOp" /\ Succeeded(last)
    /\ last.args.op = "Mul"
    /\ last.args.inputs = <<1, 1>> /\ last.args.outputs = <<2>>
    /\ buffers[1].buffer = <<1>> /\ buffers[2].buffer = <<1>>

(***************************************************************************)
(* SpecOwner: a caller keeps the ArrayBuffers it gave to malloc and those  *)
(* the reads returned, and writes into them.  Each ArrayBuffer the caller  *)
(* holds is [slot, data, shares]: the slot it was given for or read from,  *)
(* its contents, and the slot whose storage it is the same memory as       *)
(* (NoSlot if it is memory of its own).  A write on either side of shared  *)
(* memory is a write on the other.                                         *)
(***************************************************************************)
MaxHeld == 1   \* ArrayBuffers a caller keeps of each kind

NoSlot == 0

\* malloc: `new ArrayBuffer(size)` filled by `Uint8Array.set`: the slot's
\* buffer is new memory.
GivenShares(slot) == NoSlot

\* A variant of readSync that returns the slot's buffer itself.
ReturnedView(slot) == slot

\* readSync: `buffer.slice(start, start + count)` is new memory.
ReturnedShares(slot) == NoSlot

Held(slot, data, shares) == [slot |-> slot, data |-> data, shares |-> shares]

\* The caller's ArrayBuffers after the backend's buffers have become bufs.
Seen(held, bufs) ==
    [k \in DOMAIN held |->
        IF held[k].shares \in DOMAIN bufs
        THEN [held[k] EXCEPT !.data = bufs[held[k].shares].buffer]
        ELSE held[k]]
SeenBy(c, bufs) == [given |-> Seen(c.given, bufs), got |-> Seen(c.got, bufs)]

BackendOnly == UNCHANGED <<submitted, peer, onnx>>

\* The one-element contents explored.
Contents == {<<0>>, <<1>>, <<2>>}

\* malloc(size, initialData), the caller keeping initialData.
OwnerMalloc(data) ==
    /\ Len(client.given) < MaxHeld
    /\ Malloc(Len(data) * ElemBytes, Some(data))
    /\ client' = [client EXCEPT
                     !.given = Append(@, Held(nextSlot, data,
                                              GivenShares(nextSlot)))]
    /\ BackendOnly

\* readSync(slot) or read(slot), the caller keeping what it returned.
OwnerRead(slot, async) ==
    /\ Len(client.got) < MaxHeld
    /\ IF async THEN Read(slot, None, None) ELSE ReadSync(slot, None, None)
    /\ client' = IF Succeeded(last')
                 THEN [client EXCEPT
                          !.got = Append(@, Held(slot, last'.ret,
                                                 ReturnedShares(slot)))]
                 ELSE client
    /\ BackendOnly

OwnerExecuteOp(op, inputs, shapes, outputs) ==
    /\ ExecuteOp(op, inputs, shapes, outputs)
    /\ \A s \in DOMAIN buffers' : buffers'[s].buffer \in Contents
    /\ client' = SeenBy(client, buffers')
    /\ BackendOnly

OwnerDecRef(slot) ==
    /\ DecRef(slot)
    /\ client' = client
    /\ BackendOnly

\* The caller stores `data` into the k-th ArrayBuffer it holds of one kind.
Written(held, k, data) == [held EXCEPT ![k].data = data]
ClientWrite(kind, k, data) ==
    LET held == IF kind = "given" THEN client.given ELSE client.got
        mine == Written(held, k, data)
        bufs == IF held[k].shares \in DOMAIN buffers
                THEN [buffers EXCEPT ![held[k].shares].buffer = data]
                ELSE buffers
    IN  /\ held[k].data # data
        /\ buffers' = bufs
        /\ client' = SeenBy(IF kind = "given"
                            THEN [client EXCEPT !.given = mine]
                            ELSE [client EXCEPT !.got = mine], bufs)
        /\ last' = Sync("write", [kind |-> kind, k |-> k, data |-> data],
                        Ok(None))
        /\ UNCHANGED <<nextSlot, issued, tally, submitted, peer, onnx>>

NextOwner ==
    \/ \E data \in Contents : OwnerMalloc(data)
    \/ \E s \in issued : OwnerRead(s, FALSE)
    \/ \E s \in issued : OwnerRead(s, TRUE)
    \/ \E op \in Ops, a, b, c \in Live, sh \in UnitShapes :
           OwnerExecuteOp(op, <<a, b>>, sh, <<c>>)
    \/ \E s \in Live : OwnerDecRef(s)
    \/ \E k \in DOMAIN client.given, data \in Contents :
           ClientWrite("given", k, data)
    \/ \E k \in DOMAIN client.got, data \in Contents :
           ClientWrite("got", k, data)

SpecOwner == Init /\ [][NextOwner]_vars

\* The contents of the caller's ArrayBuffers, in the order it got them.
Bytes(held) == [k \in DOMAIN held |-> held[k].data]

\* C29: the backend owns the storage of its slots: malloc copies
\* initialData and the reads return a copy, so a write the caller makes to
\* initialData or to returned bytes changes no slot, and a later executeOp
\* or a decRef, freeing or not, changes no bytes the caller holds.
C29_BackendOwnsStorage ==
    [][ /\ last'.op = "write" => buffers' = buffers
        /\ (last'.op \in {"executeOp", "decRef"}) =>
              /\ Bytes(client'.given) = Bytes(client.given)
              /\ Bytes(client'.got) = Bytes(client.got)
        /\ (last'.op = "malloc" /\ Succeeded(last')) =>
              buffers'[last'.ret[1]].buffer = last'.args.initialData[1]
        /\ (IsReadCall(last') /\ Succeeded(last')) =>
              /\ last'.ret = buffers[last'.args.slot].buffer
              /\ Bytes(client'.got) = Append(Bytes(client.got), last'.ret)
      ]_vars

\* An executeOp has made a slot hold 2; the caller still holds the 1 that
\* a read of the slot returned before, and the initialData of the slot,
\* which it has set to 0 since.
C29_Witness ==
    /\ last.op = "executeOp" /\ Succeeded(last)
    /\ \E k \in DOMAIN client.got :
          /\ client.got[k].slot \in Range(last.args.outputs)
          /\ client.got[k].data = <<1>>
          /\ buffers[client.got[k].slot].buffer = <<2>>
    /\ \E k \in DOMAIN client.given :
          /\ client.given[k].slot \in Range(last.args.outputs)
          /\ client.given[k].data = <<0>>

====
